---- MODULE Spec2Model ----
(***************************************************************************)
(* The Analytics page of the admin dashboard (src/src/pages/Analytics.tsx) *)
(* as a state machine: the component state (timeRange, data, loading), the *)
(* loadAnalytics calls in flight, and exportData; and, after it, the other *)
(* pages of the application (user management, gallery, dashboard, image    *)
(* generator), each as the state of its component and its calls in flight. *)
(* One page is mounted at a time: the one of the route in path.            *)
(*                                                                         *)
(* A JavaScript string is a sequence of one-character strings, so that     *)
(* slice, startsWith, split, join and the Date conversions are computed    *)
(* and not assumed.  A JavaScript time value, a number t of milliseconds   *)
(* since 1970-01-01T00:00:00Z, is held as its quotient and remainder by    *)
(* 86400000, [day |-> t \div MsPerDay, ms |-> t % MsPerDay]: TLC's         *)
(* integers have 32 bits and t has about 41.                               *)
(***************************************************************************)
EXTENDS Integers, Sequences, FiniteSets, TLC

VARIABLES
    dbUsers,     \* what blink.db.users.list returns (the external store)
    dbImages,    \* what blink.db.generatedImages.list returns
    clock,       \* the wall clock read by new Date(), in ms
    tzOffset,    \* the browser's time zone, minutes east of UTC
    timeRange,   \* useState('30d')
    data,        \* useState<AnalyticsData>
    loading,     \* useState(true)
    loads,       \* the loadAnalytics calls in flight
    started,     \* how many loadAnalytics calls were started
    lastLoad,    \* the locals of the loadAnalytics call that finished last
    download,    \* the file exportData handed to the browser
    path,        \* the route shown: the page that is mounted
    authUser,    \* the signed-in user blink.auth.me() returns
    app,         \* the App component: its user, loading and sidebarOpen, and
                 \* the router's location
    um,          \* the UserManagement component and its calls in flight
    gallery,     \* the Gallery component and its calls in flight
    dash,        \* the AdminDashboard component and its calls in flight
    gen          \* the ImageGenerator component, its calls and its timers

vars == <<dbUsers, dbImages, clock, tzOffset, timeRange, data, loading,
          loads, started, lastLoad, download, path, authUser, app, um,
          gallery, dash, gen>>

\* the state of the pages other than Analytics
pages == <<path, authUser, app, um, gallery, dash, gen>>

\* the state of the Analytics page
analytics == <<timeRange, data, loading, loads, started, lastLoad, download>>

\* the external store, the clock and the time zone
world == <<dbUsers, dbImages, clock, tzOffset>>

----------------------------------------------------------------------------
(* Strings and numbers *)

Digits == <<"0", "1", "2", "3", "4", "5", "6", "7", "8", "9">>

IsDigit(c) == \E i \in 1..10 : Digits[i] = c

DigitVal(c) == (CHOOSE i \in 1..10 : Digits[i] = c) - 1

AllDigits(s) == \A i \in 1..Len(s) : IsDigit(s[i])

\* Number.prototype.toString of a non-negative integer
RECURSIVE NumberToString(_)
NumberToString(n) ==
    IF n < 10 THEN <<Digits[n + 1]>>
    ELSE NumberToString(n \div 10) \o <<Digits[(n % 10) + 1]>>

\* the value of a string of decimal digits
RECURSIVE DigitsToNumber(_)
DigitsToNumber(s) ==
    IF Len(s) = 0 THEN 0
    ELSE 10 * DigitsToNumber(SubSeq(s, 1, Len(s) - 1)) + DigitVal(s[Len(s)])

\* String.prototype.padStart(w, '0')
PadStart(s, w) ==
    IF Len(s) >= w THEN s ELSE [i \in 1..(w - Len(s)) |-> "0"] \o s

\* String.prototype.slice(from, to) with 0 <= from, JavaScript's 0-based ends
Slice(s, from, to) ==
    SubSeq(s, from + 1, IF to < Len(s) THEN to ELSE Len(s))

\* String.prototype.startsWith
StartsWith(s, prefix) ==
    /\ Len(prefix) <= Len(s)
    /\ \A i \in 1..Len(prefix) : s[i] = prefix[i]

\* the index of the first c in s, 0 when there is none
IndexOf(s, c) ==
    IF \E i \in 1..Len(s) : s[i] = c
    THEN CHOOSE i \in 1..Len(s) : s[i] = c /\ \A j \in 1..(i - 1) : s[j] # c
    ELSE 0

\* String.prototype.split(c)[0]
SplitFirst(s, c) ==
    IF IndexOf(s, c) = 0 THEN s ELSE SubSeq(s, 1, IndexOf(s, c) - 1)

\* Array.prototype.join(sep) of an array of strings: the parts in order with
\* sep between two neighbours (computed by halves, to keep the evaluation
\* shallow)
RECURSIVE Join(_, _)
Join(parts, sep) ==
    IF Len(parts) = 0 THEN <<>>
    ELSE IF Len(parts) = 1 THEN parts[1]
    ELSE LET half == Len(parts) \div 2
         IN  Join(SubSeq(parts, 1, half), sep) \o sep
                 \o Join(SubSeq(parts, half + 1, Len(parts)), sep)

\* a field that is undefined (or the empty string: both are falsy, and both
\* give an Invalid Date)
Undefined == <<"undefined">>

IsFalsy(s) == s = Undefined \/ s = <<>>

----------------------------------------------------------------------------
(* Date: ms since the epoch <-> the UTC calendar *)

MsPerDay == 86400000

MsPerHour == 3600000

MsPerMinute == 60000

MsPerSecond == 1000

\* days since 1970-01-01 of the civil date y-m-d (proleptic Gregorian, y >= 0)
DaysFromCivil(y, m, d) ==
    LET yy  == IF m <= 2 THEN y - 1 ELSE y
        era == yy \div 400
        yoe == yy - era * 400
        mp  == IF m > 2 THEN m - 3 ELSE m + 9
        doy == (153 * mp + 2) \div 5 + d - 1
        doe == yoe * 365 + yoe \div 4 - yoe \div 100 + doy
    IN  era * 146097 + doe - 719468

\* the civil date of day z since 1970-01-01
CivilFromDays(z) ==
    LET zz  == z + 719468
        era == zz \div 146097
        doe == zz - era * 146097
        yoe == (doe - doe \div 1460 + doe \div 36524 - doe \div 146096) \div 365
        doy == doe - (365 * yoe + yoe \div 4 - yoe \div 100)
        mp  == (5 * doy + 2) \div 153
        d   == doy - (153 * mp + 2) \div 5 + 1
        m   == IF mp < 10 THEN mp + 3 ELSE mp - 9
    IN  [year |-> yoe + era * 400 + (IF m <= 2 THEN 1 ELSE 0), month |-> m, day |-> d]

IsLeapYear(y) == (y % 4 = 0 /\ y % 100 # 0) \/ y % 400 = 0

DaysInMonth(y, m) ==
    IF m = 2 THEN (IF IsLeapYear(y) THEN 29 ELSE 28)
    ELSE IF m \in {4, 6, 9, 11} THEN 30 ELSE 31

\* Date.prototype.toISOString: YYYY-MM-DDTHH:mm:ss.sssZ (years 0..9999)
ToISOString(t) ==
    LET civ == CivilFromDays(t.day)
        ms  == t.ms
        P(n, w) == PadStart(NumberToString(n), w)
    IN  P(civ.year, 4) \o <<"-">> \o P(civ.month, 2) \o <<"-">> \o P(civ.day, 2)
        \o <<"T">> \o P(ms \div MsPerHour, 2)
        \o <<":">> \o P((ms % MsPerHour) \div MsPerMinute, 2)
        \o <<":">> \o P((ms % MsPerMinute) \div MsPerSecond, 2)
        \o <<".">> \o P(ms % MsPerSecond, 3) \o <<"Z">>

\* the time value day * MsPerDay + ms
Time(day, ms) == [valid |-> TRUE, day |-> day, ms |-> ms]

InvalidDate == [valid |-> FALSE, day |-> 0, ms |-> 0]

\* new Date(t.getTime() - i * 24 * 60 * 60 * 1000)
MinusDays(t, i) == Time(t.day - i, t.ms)

\* the date part YYYY-MM-DD of a date-time string, as days since the epoch
ParseDatePart(s) ==
    LET y == DigitsToNumber(SubSeq(s, 1, 4))
        m == DigitsToNumber(SubSeq(s, 6, 7))
        d == DigitsToNumber(SubSeq(s, 9, 10))
    IN  IF /\ AllDigits(SubSeq(s, 1, 4)) /\ s[5] = "-"
           /\ AllDigits(SubSeq(s, 6, 7)) /\ s[8] = "-"
           /\ AllDigits(SubSeq(s, 9, 10))
           /\ m \in 1..12 /\ d \in 1..DaysInMonth(y, m)
        THEN [valid |-> TRUE, n |-> DaysFromCivil(y, m, d)]
        ELSE [valid |-> FALSE, n |-> 0]

\* the time part THH:mm:ss.sssZ or THH:mm:ssZ of a date-time string, as ms
\* into the day
ParseTimePart(s) ==
    LET hh == DigitsToNumber(SubSeq(s, 12, 13))
        mm == DigitsToNumber(SubSeq(s, 15, 16))
        ss == DigitsToNumber(SubSeq(s, 18, 19))
        ms == IF Len(s) = 24 THEN DigitsToNumber(SubSeq(s, 21, 23)) ELSE 0
    IN  IF /\ s[11] = "T"
           /\ AllDigits(SubSeq(s, 12, 13)) /\ s[14] = ":"
           /\ AllDigits(SubSeq(s, 15, 16)) /\ s[17] = ":"
           /\ AllDigits(SubSeq(s, 18, 19))
           /\ IF Len(s) = 24
              THEN s[20] = "." /\ AllDigits(SubSeq(s, 21, 23)) /\ s[24] = "Z"
              ELSE s[20] = "Z"
           /\ hh <= 23 /\ mm <= 59 /\ ss <= 59
        THEN [valid |-> TRUE,
              n |-> hh * MsPerHour + mm * MsPerMinute + ss * MsPerSecond + ms]
        ELSE [valid |-> FALSE, n |-> 0]

\* new Date(s) for the strings the stores hold: the date-time form
\* toISOString writes, the same without milliseconds, the date-only form
\* YYYY-MM-DD (UTC midnight); the others, undefined included, give an
\* Invalid Date
NewDate(s) ==
    IF Len(s) \notin {10, 20, 24} THEN InvalidDate
    ELSE LET date == ParseDatePart(s)
         IN  IF ~date.valid THEN InvalidDate
             ELSE IF Len(s) = 10 THEN Time(date.n, 0)
             ELSE LET time == ParseTimePart(s)
                  IN  IF time.valid THEN Time(date.n, time.n) ELSE InvalidDate

\* a >= b on Dates: false as soon as one of them is NaN
DateGE(a, b) ==
    /\ a.valid /\ b.valid
    /\ (a.day > b.day \/ (a.day = b.day /\ a.ms >= b.ms))

----------------------------------------------------------------------------
(* Objects used as dictionaries: {} as Record<string, number> *)

\* A property value: the number v, or (num = FALSE) a string that is no
\* number: the text of an inherited member followed by v characters "1".
Num(n) == [num |-> TRUE, v |-> n]

NotANumber(n) == [num |-> FALSE, v |-> n]

\* An object is the sequence of its own properties [key, value] in creation
\* order; {} is the empty sequence.  Its prototype is Object.prototype.
ObjectPrototypeKeys ==
    { <<"c", "o", "n", "s", "t", "r", "u", "c", "t", "o", "r">>,
      <<"t", "o", "S", "t", "r", "i", "n", "g">>,
      <<"v", "a", "l", "u", "e", "O", "f">>,
      <<"h", "a", "s", "O", "w", "n", "P", "r", "o", "p", "e", "r", "t", "y">> }

ProtoKey == <<"_", "_", "p", "r", "o", "t", "o", "_", "_">>

HasOwn(obj, key) == \E i \in 1..Len(obj) : obj[i].key = key

OwnIndex(obj, key) == CHOOSE i \in 1..Len(obj) : obj[i].key = key

\* (acc[key] || 0) + 1: an own number counts up; a missing key starts at 1;
\* an inherited member (a function, or the prototype itself for __proto__)
\* is truthy, and + 1 appends "1" to its text
Incremented(obj, key) ==
    IF HasOwn(obj, key)
    THEN [obj[OwnIndex(obj, key)].value EXCEPT !.v = @ + 1]
    ELSE IF key \in ObjectPrototypeKeys \/ key = ProtoKey
    THEN NotANumber(1)
    ELSE Num(1)

\* acc[key] = value: the __proto__ setter ignores a value that is no object
SetProperty(obj, key, value) ==
    IF key = ProtoKey THEN obj
    ELSE IF HasOwn(obj, key)
    THEN [obj EXCEPT ![OwnIndex(obj, key)].value = value]
    ELSE Append(obj, [key |-> key, value |-> value])

\* the reduce step: acc[key] = (acc[key] || 0) + 1; return acc
CountKey(obj, key) == SetProperty(obj, key, Incremented(obj, key))

\* an array index: a canonical decimal integer below 2^32 - 1
MaxArrayIndex == <<"4", "2", "9", "4", "9", "6", "7", "2", "9", "4">>

\* a < b for strings of digits of equal length
RECURSIVE DigitsLess(_, _)
DigitsLess(a, b) ==
    /\ Len(a) > 0
    /\ \/ DigitVal(a[1]) < DigitVal(b[1])
       \/ a[1] = b[1] /\ DigitsLess(Tail(a), Tail(b))

IndexLess(a, b) ==
    Len(a) < Len(b) \/ (Len(a) = Len(b) /\ DigitsLess(a, b))

IsArrayIndex(s) ==
    /\ Len(s) >= 1 /\ AllDigits(s)
    /\ (Len(s) = 1 \/ s[1] # "0")
    /\ (s = MaxArrayIndex \/ IndexLess(s, MaxArrayIndex))

IndexProps(obj) == SelectSeq(obj, LAMBDA p : IsArrayIndex(p.key))

StringProps(obj) == SelectSeq(obj, LAMBDA p : ~IsArrayIndex(p.key))

\* properties with array-index keys (all different) in ascending order
RECURSIVE SortByIndex(_)
SortByIndex(seq) ==
    IF Len(seq) = 0 THEN <<>>
    ELSE LET m == CHOOSE i \in 1..Len(seq) :
                    \A j \in 1..Len(seq) : j # i => IndexLess(seq[i].key, seq[j].key)
         IN  <<seq[m]>> \o SortByIndex([k \in 1..(Len(seq) - 1) |->
                                            IF k < m THEN seq[k] ELSE seq[k + 1]])

\* Object.entries(obj): the array-index keys in ascending numeric order, then
\* the other string keys in creation order
ObjectEntries(obj) == SortByIndex(IndexProps(obj)) \o StringProps(obj)

----------------------------------------------------------------------------
(* loadAnalytics: the computation after the two reads *)

\* timeRange === '7d' ? 7 : timeRange === '30d' ? 30 : 90
DaysBack(range) == IF range = "7d" THEN 7 ELSE IF range = "30d" THEN 30 ELSE 90

\* new Date(now.getTime() - daysBack * 24 * 60 * 60 * 1000)
StartDate(now, daysBack) == MinusDays(now, daysBack)

\* the filter written !(new Date(img.createdAt) < startDate), which an
\* Invalid Date passes: the variant C5 is checked against
FilteredImagesNotBefore(images, startDate) ==
    SelectSeq(images, LAMBDA img :
        ~(NewDate(img.createdAt).valid /\ ~DateGE(NewDate(img.createdAt), startDate)))

\* images.filter(img => new Date(img.createdAt) >= startDate)
FilteredImages(images, startDate) ==
    SelectSeq(images, LAMBDA img : DateGE(NewDate(img.createdAt), startDate))

\* date.toISOString().split('T')[0] of the day i days before now
DateStr(now, i) == SplitFirst(ToISOString(MinusDays(now, i)), "T")

\* filteredImages.filter(img => img.createdAt.startsWith(dateStr))
DayImages(filtered, dateStr) ==
    SelectSeq(filtered, LAMBDA img : StartsWith(img.createdAt, dateStr))

\* dayImages.map(img => img.userId).length, without the Set: the variant C2
\* is checked against
DayUsersWithRepeats(dayImages) == Len(dayImages)

\* new Set(dayImages.map(img => img.userId)).size
DayUsers(dayImages) ==
    Cardinality({dayImages[k].userId : k \in 1..Len(dayImages)})

\* one pass of the loop body: the entry pushed for dateStr
DayStat(filtered, dateStr) ==
    [date   |-> dateStr,
     users  |-> DayUsers(DayImages(filtered, dateStr)),
     images |-> Len(DayImages(filtered, dateStr))]

\* for (let i = daysBack; i > 0; i--), a loop that ends the day before now:
\* the variant C1 is checked against
DailyStatsToYesterday(filtered, now, daysBack) ==
    [j \in 1..daysBack |-> DayStat(filtered, DateStr(now, daysBack - j + 1))]

\* for (let i = daysBack - 1; i >= 0; i--): the j-th entry pushed has
\* i = daysBack - j
DailyStats(filtered, now, daysBack) ==
    [j \in 1..daysBack |-> DayStat(filtered, DateStr(now, daysBack - j))]

TruncateLength == 50

Ellipsis == <<".", ".", ".">>

\* img.prompt.slice(0, 50) + (img.prompt.length > 50 ? '...' : '')
PromptKey(prompt) ==
    Slice(prompt, 0, TruncateLength)
        \o (IF Len(prompt) > TruncateLength THEN Ellipsis ELSE <<>>)

\* filteredImages.reduce((acc, img) => ..., {})
RECURSIVE PromptCounts(_)
PromptCounts(filtered) ==
    IF Len(filtered) = 0 THEN <<>>
    ELSE CountKey(PromptCounts(SubSeq(filtered, 1, Len(filtered) - 1)),
                  PromptKey(filtered[Len(filtered)].prompt))

\* e placed after the entries of the non-increasing seq that are >= e
InsertByCountDesc(seq, e) ==
    LET n == Cardinality({i \in 1..Len(seq) : seq[i].value.v >= e.value.v})
    IN  SubSeq(seq, 1, n) \o <<e>> \o SubSeq(seq, n + 1, Len(seq))

\* the stable sort by descending count
RECURSIVE StableSortByCountDesc(_)
StableSortByCountDesc(seq) ==
    IF Len(seq) = 0 THEN <<>>
    ELSE InsertByCountDesc(StableSortByCountDesc(SubSeq(seq, 1, Len(seq) - 1)),
                           seq[Len(seq)])

Reorderings(seq) ==
    { [i \in 1..Len(seq) |-> seq[p[i]]] :
        p \in { q \in [1..Len(seq) -> 1..Len(seq)] :
                  \A i, j \in 1..Len(seq) : i # j => q[i] # q[j] } }

\* .sort(([, a], [, b]) => b - a): b - a is a number for two numbers, and the
\* sort is stable.  With a value that is no number b - a is NaN, the
\* comparator is not consistent, and the order is implementation-defined
\* (ECMAScript, Array.prototype.sort): any permutation.
SortedByCount(entries) ==
    IF \A i \in 1..Len(entries) : entries[i].value.num
    THEN {StableSortByCountDesc(entries)}
    ELSE Reorderings(entries)

TopLimit == 10

\* .slice(0, 10).map(([prompt, count]) => ({ prompt, count }))
TopSlice(sorted) ==
    [k \in 1..(IF Len(sorted) < TopLimit THEN Len(sorted) ELSE TopLimit) |->
        [prompt |-> sorted[k].key, count |-> sorted[k].value]]

\* the values topPrompts can take
TopPrompts(filtered) ==
    { TopSlice(sorted) : sorted \in SortedByCount(ObjectEntries(PromptCounts(filtered))) }

\* new Date(user.createdAt || new Date())
\* new Date() at line 93, read for each user without createdAt while the
\* call runs: the instant of now (line 51), or a later one; one millisecond
\* later is explored
ClockReads(now) ==
    { now,
      IF now.ms + 1 < MsPerDay THEN Time(now.day, now.ms + 1)
      ELSE Time(now.day + 1, 0) }

UserDate(user, now) ==
    IF IsFalsy(user.createdAt) THEN now ELSE NewDate(user.createdAt)

\* toISOString throws a RangeError on an Invalid Date
MonthThrows(users, now) ==
    \E i \in 1..Len(users) : ~UserDate(users[i], now).valid

\* new Date(...).toISOString().slice(0, 7)
MonthOf(user, now) == Slice(ToISOString(UserDate(user, now)), 0, 7)

\* users.reduce((acc, user) => ..., {})
RECURSIVE MonthlyUsers(_, _)
MonthlyUsers(users, now) ==
    IF Len(users) = 0 THEN <<>>
    ELSE CountKey(MonthlyUsers(SubSeq(users, 1, Len(users) - 1), now),
                  MonthOf(users[Len(users)], now))

\* the collation rank of the characters of a YYYY-MM key: "-" before digits
CharRank(c) == IF c = "-" THEN 0 ELSE DigitVal(c) + 1

\* a.localeCompare(b) < 0 for two keys made of digits and "-"
RECURSIVE LocaleLess(_, _)
LocaleLess(a, b) ==
    IF Len(b) = 0 THEN FALSE
    ELSE IF Len(a) = 0 THEN TRUE
    ELSE \/ CharRank(a[1]) < CharRank(b[1])
         \/ a[1] = b[1] /\ LocaleLess(Tail(a), Tail(b))

\* .sort(([a], [b]) => a.localeCompare(b)) on entries with different keys
RECURSIVE SortedByMonth(_)
SortedByMonth(seq) ==
    IF Len(seq) = 0 THEN <<>>
    ELSE LET m == CHOOSE i \in 1..Len(seq) :
                    \A j \in 1..Len(seq) : j # i => LocaleLess(seq[i].key, seq[j].key)
         IN  <<seq[m]>> \o SortedByMonth([k \in 1..(Len(seq) - 1) |->
                                              IF k < m THEN seq[k] ELSE seq[k + 1]])

MonthsBack == 6

\* .slice(-6)
LastMonths(seq) ==
    SubSeq(seq, (IF Len(seq) > MonthsBack THEN Len(seq) - MonthsBack ELSE 0) + 1, Len(seq))

MonthShort ==
    << <<"J", "a", "n">>,
       <<"F", "e", "b">>,
       <<"M", "a", "r">>,
       <<"A", "p", "r">>,
       <<"M", "a", "y">>,
       <<"J", "u", "n">>,
       <<"J", "u", "l">>,
       <<"A", "u", "g">>,
       <<"S", "e", "p">>,
       <<"O", "c", "t">>,
       <<"N", "o", "v">>,
       <<"D", "e", "c">> >>

\* the local calendar date of time value t in a zone tz minutes east of UTC
LocalCivil(t, tz) ==
    LET local == t.ms + tz * MsPerMinute
        shift == IF local < 0 THEN -1 ELSE IF local >= MsPerDay THEN 1 ELSE 0
    IN  CivilFromDays(t.day + shift)

\* new Date(month + '-01').toLocaleDateString('en-US',
\*     { month: 'short', year: 'numeric' })
MonthLabel(month, tz) ==
    LET civ == LocalCivil(NewDate(month \o <<"-", "0", "1">>), tz)
    IN  MonthShort[civ.month] \o <<" ">> \o NumberToString(civ.year)

\* Object.entries(monthlyUsers).sort(...).slice(-6).map(...)
UserGrowth(users, now, tz) ==
    LET last == LastMonths(SortedByMonth(ObjectEntries(MonthlyUsers(users, now))))
    IN  [k \in 1..Len(last) |->
            [month |-> MonthLabel(last[k].key, tz), users |-> last[k].value]]

\* the objects setData can be called with
AnalyticsData(users, images, now, daysBack, tz) ==
    LET filtered == FilteredImages(images, StartDate(now, daysBack))
    IN  { [totalUsers  |-> Len(users),
           totalImages |-> Len(images),
           dailyStats  |-> DailyStats(filtered, now, daysBack),
           topPrompts  |-> top,
           userGrowth  |-> UserGrowth(users, later, tz)] :
               top \in TopPrompts(filtered), later \in ClockReads(now) }

----------------------------------------------------------------------------
(* exportData *)

CsvHeader == << <<"D", "a", "t", "e">>, <<"U", "s", "e", "r", "s">>, <<"I", "m", "a", "g", "e", "s">> >>

\* [stat.date, stat.images, stat.users].join(','), the columns swapped: the
\* variant C10 is checked against
CsvRowImagesFirst(stat) ==
    Join(<<stat.date, NumberToString(stat.images), NumberToString(stat.users)>>, <<",">>)

\* [stat.date, stat.users, stat.images].join(','): join writes a number in
\* decimal
CsvRow(stat) ==
    Join(<<stat.date, NumberToString(stat.users), NumberToString(stat.images)>>, <<",">>)

\* [header, ...dailyStats.map(...)].map(row => row.join(',')).join('\n')
CsvContent(dailyStats) ==
    Join(<<Join(CsvHeader, <<",">>)>> \o [k \in 1..Len(dailyStats) |-> CsvRow(dailyStats[k])],
         <<"\n">>)

RangeText(range) ==
    IF range = "7d" THEN <<"7", "d">>
    ELSE IF range = "30d" THEN <<"3", "0", "d">>
    ELSE <<"9", "0", "d">>

\* `analytics-${timeRange}.csv`
DownloadName(range) ==
    <<"a", "n", "a", "l", "y", "t", "i", "c", "s", "-">> \o RangeText(range) \o <<".", "c", "s", "v">>

----------------------------------------------------------------------------
(* The summary cards (Analytics.tsx:190-250) *)

\* dailyStats.reduce((sum, stat) => sum + stat.images, 0)
RECURSIVE ImagesOfDays(_)
ImagesOfDays(dailyStats) ==
    IF Len(dailyStats) = 0 THEN 0
    ELSE IF Len(dailyStats) = 1 THEN dailyStats[1].images
    ELSE LET half == Len(dailyStats) \div 2
         IN  ImagesOfDays(SubSeq(dailyStats, 1, half))
                 + ImagesOfDays(SubSeq(dailyStats, half + 1, Len(dailyStats)))

\* a / b of two non-negative integers: 0 / 0 is NaN, a / 0 is Infinity
Quotient(a, b) ==
    IF b # 0 THEN [kind |-> "ratio", n |-> a, d |-> b]
    ELSE IF a = 0 THEN [kind |-> "NaN"] ELSE [kind |-> "Infinity"]

\* Math.round(n / d) by cutting the fraction off: the variant C16 is checked
\* against
MathTrunc(q) ==
    IF q.kind = "ratio" THEN [kind |-> "int", v |-> q.n \div q.d] ELSE q

\* Math.round: the nearest integer, a half goes up; NaN and Infinity stay
MathRound(q) ==
    IF q.kind = "ratio" THEN [kind |-> "int", v |-> (2 * q.n + q.d) \div (2 * q.d)]
    ELSE q

\* x || 0: NaN and 0 are falsy
OrZero(x) ==
    IF x.kind = "NaN" \/ (x.kind = "int" /\ x.v = 0) THEN [kind |-> "int", v |-> 0]
    ELSE x

\* the 'Avg per Day' card
AvgPerDay(dailyStats) ==
    OrZero(MathRound(Quotient(ImagesOfDays(dailyStats), Len(dailyStats))))

\* dailyStats.flatMap(stat => Array(stat.users).fill(0)): stat.users zeros
\* for each day, one after the other
RECURSIVE FlatZeros(_)
FlatZeros(dailyStats) ==
    IF Len(dailyStats) = 0 THEN <<>>
    ELSE IF Len(dailyStats) = 1 THEN [i \in 1..dailyStats[1].users |-> 0]
    ELSE LET half == Len(dailyStats) \div 2
         IN  FlatZeros(SubSeq(dailyStats, 1, half))
                 \o FlatZeros(SubSeq(dailyStats, half + 1, Len(dailyStats)))

\* the 'Active Users' card: new Set(...).size, the number of distinct
\* elements
ActiveUsersCard(dailyStats) ==
    LET zeros == FlatZeros(dailyStats)
    IN  Cardinality({zeros[i] : i \in 1..Len(zeros)})

----------------------------------------------------------------------------
(* The records the external store can hold *)

MaxImages == 2

MaxUsers == 2

MaxLoads == 2

\* handleRoleChange calls started on one page
MaxUpdates == 2

\* the day and the time of day of the sessions explored: 2024-03-01, 12:00 UTC
Today == DaysFromCivil(2024, 3, 1)

Noon == 12 * MsPerHour

Clocks == {Time(Today, Noon)}

TimeZones == {0, -300}

TimeRanges == {"7d", "30d", "90d"}

Cat == <<"c", "a", "t">>

Dog == <<"d", "o", "g">>

Seven == <<"7">>

Constructor == <<"c", "o", "n", "s", "t", "r", "u", "c", "t", "o", "r">>

\* 51 and 53 characters with the same first 50, and exactly 50
Long51 == [i \in 1..51 |-> "a"]

Long53 == [i \in 1..50 |-> "a"] \o <<"b", "c", "d">>

Long50 == [i \in 1..50 |-> "a"]

NotADate == <<"n", "o", "t", "-", "a", "-", "d", "a", "t", "e">>

Shape(userId, prompt, createdAt) ==
    [userId |-> userId, prompt |-> prompt, createdAt |-> createdAt]

\* the k-th smallest member of the set S of numbers
RECURSIVE Nth(_, _)
Nth(S, k) ==
    LET m == CHOOSE x \in S : \A y \in S : x <= y
    IN  IF k = 1 THEN m ELSE Nth(S \ {m}, k - 1)

\* the entries of catalog at the positions S, in the catalog's order
Pick(catalog, S) == [k \in 1..Cardinality(S) |-> catalog[Nth(S, k)]]

\* the lists of at most max entries of catalog, in the catalog's order
Picks(catalog, max) ==
    { Pick(catalog, S) : S \in { T \in SUBSET (1..Len(catalog)) : Cardinality(T) <= max } }

\* images as handleGenerate writes them (createdAt: new Date().toISOString())
\* at chosen instants around the clock: earlier today; the last millisecond of
\* yesterday; later today, after the clock, written without milliseconds; and
\* two without a usable createdAt
ImageCatalog ==
    << Shape("u1", Cat, ToISOString(Time(Today, 10 * MsPerHour))),
       Shape("u1", Seven, ToISOString(Time(Today - 1, MsPerDay - 1))),
       Shape("u2", Dog, Slice(ToISOString(Time(Today, 18 * MsPerHour)), 0, 19) \o <<"Z">>),
       Shape("u2", Dog, NotADate),
       Shape("u1", Cat, Undefined) >>

WithIds(shapes) ==
    [k \in 1..Len(shapes) |->
        [id        |-> <<"i">> \o NumberToString(k),
         userId    |-> shapes[k].userId,
         prompt    |-> shapes[k].prompt,
         createdAt |-> shapes[k].createdAt]]

\* eleven prompts, all different, one image a day
ElevenPrompts ==
    [k \in 1..11 |-> Shape("u1", <<"p">> \o NumberToString(k),
                           ToISOString(Time(Today - k, Noon)))]

\* a member of Object.prototype between a prompt seen once and one seen
\* twice, two images of one user on one day, and a prompt __proto__
AroundConstructor ==
    << Shape("u1", Cat, ToISOString(Time(Today, 10 * MsPerHour))),
       Shape("u1", Constructor, ToISOString(Time(Today, 10 * MsPerHour))),
       Shape("u2", Dog, ToISOString(Time(Today - 1, Noon))),
       Shape("u2", Dog, ToISOString(Time(Today - 2, Noon))),
       Shape("u1", ProtoKey, ToISOString(Time(Today, 0))) >>

\* prompts of 51, 53 and 50 characters, made exactly seven days before the
\* clock, one millisecond earlier, and thirty days before the clock
AtTheEdge ==
    << Shape("u1", Long51, ToISOString(Time(Today - 7, Noon))),
       Shape("u2", Long53, ToISOString(Time(Today - 7, Noon - 1))),
       Shape("u2", Long50, ToISOString(Time(Today - 30, Noon))) >>

ImageLists ==
    { WithIds(l) : l \in Picks(ImageCatalog, MaxImages)
                            \cup {ElevenPrompts, AroundConstructor, AtTheEdge} }

UserCatalog ==
    << ToISOString(Time(DaysFromCivil(2024, 1, 15), Noon)),
       ToISOString(Time(DaysFromCivil(2024, 1, 31), MsPerDay - 1)),
       ToISOString(Time(DaysFromCivil(2023, 11, 1), 0)),
       NotADate,
       Undefined >>

WithUserIds(stamps) ==
    [k \in 1..Len(stamps) |->
        [id |-> <<"u">> \o NumberToString(k), createdAt |-> stamps[k]]]

\* seven users, one in each of seven months, not in the order of the months
SevenMonths ==
    [k \in 1..7 |-> ToISOString(Time(DaysFromCivil(2023, 5 + ((k * 3) % 7), 10), Noon))]

UserLists ==
    { WithUserIds(l) : l \in Picks(UserCatalog, MaxUsers) \cup {SevenMonths} }

BaseUsers ==
    WithUserIds(<< ToISOString(Time(DaysFromCivil(2024, 1, 15), Noon)),
                   ToISOString(Time(DaysFromCivil(2024, 3, 1), 0)) >>)

BaseImages ==
    WithIds(<< Shape("u1", Cat, ToISOString(Time(Today, 10 * MsPerHour))),
               Shape("u2", Dog, ToISOString(Time(Today - 1, Noon))) >>)

\* the stores explored: every list of images, with two users that have dates
ImageStores ==
    { [images |-> il, users |-> BaseUsers, tz |-> 0] : il \in ImageLists }

\* every list of users, in either time zone, with two images
UserStores ==
    { [images |-> BaseImages, users |-> ul, tz |-> z] :
        ul \in UserLists, z \in TimeZones }

----------------------------------------------------------------------------
(* The component *)

NoData ==
    [totalUsers |-> 0, totalImages |-> 0, dailyStats |-> <<>>,
     topPrompts |-> <<>>, userGrowth |-> <<>>]

\* the locals of a finished call: how it ended, its timeRange, now, users,
\* images and filteredImages (those it did not reach are empty)
Finished(outcome, range, now, users, images, filtered) ==
    [outcome |-> outcome, range |-> range, now |-> now,
     users |-> users, images |-> images, filtered |-> filtered,
     \* the console.error calls of its catch block
     reports |-> IF outcome \in {"usersFailed", "imagesFailed", "threw"} THEN 1 ELSE 0]

NoLoad == Finished("none", "30d", InvalidDate, <<>>, <<>>, <<>>)

\* stats: the data.dailyStats the export read
NoDownload == [made |-> FALSE, name |-> <<>>, content |-> <<>>, stats |-> <<>>]

\* a loadAnalytics call: the timeRange its closure captured, where it waits,
\* and its local users once the first read has returned
NewLoad(range) == [range |-> range, pc |-> "users", users |-> <<>>]

\* users of UserManagement before its first load returns
NoUserManagement ==
    [users |-> <<>>, loading |-> TRUE, searchQuery |-> <<>>,
     loads |-> <<>>, started |-> 0, updates |-> <<>>, asked |-> 0,
     \* the toast.error calls of handleRoleChange
     roleErrors |-> 0]

\* images of Gallery before its first load returns
NoGallery ==
    [images |-> <<>>, loading |-> TRUE, searchQuery |-> <<>>,
     sizeFilter |-> "all", qualityFilter |-> "all", loads |-> <<>>, started |-> 0]

\* stats of AdminDashboard before its first load returns
NoStats ==
    [totalUsers |-> 0, totalImages |-> 0, imagesThisMonth |-> 0,
     activeUsers |-> 0, systemStatus |-> "healthy"]

\* the locals of a finished loadDashboardData call: how it ended, its users
\* and images as the call left them, and the console.error calls it made
DashFinished(outcome, users, images) ==
    [outcome |-> outcome, users |-> users, images |-> images,
     reports |-> IF outcome = "failed" THEN 1 ELSE 0]

NoDashboard ==
    [stats |-> NoStats, recentActivity |-> <<>>, loading |-> TRUE,
     loads |-> <<>>, started |-> 0, last |-> DashFinished("none", <<>>, <<>>)]

\* ImageGenerator before anything is typed
NoGenerator ==
    [prompt |-> <<>>, generating |-> FALSE, progress |-> 0,
     generatedImages |-> <<>>, calls |-> <<>>, started |-> 0, timers |-> {},
     \* the handleGenerate calls that returned at the check of the prompt
     refused |-> 0]

\* useState<User | null>(null): nobody is signed in
Null == [null |-> TRUE]

\* the href of each entry of const navigation
navigation == <<"/", "/gallery">>

\* the href of each entry of const adminNavigation
adminNavigation == <<"/admin", "/admin/users", "/admin/analytics">>

\* [...navigation, ...(isAdmin ? adminNavigation : [])]
AllNavigation(isAdmin) ==
    navigation \o (IF isAdmin THEN adminNavigation ELSE <<>>)

\* user.role !== 'user', which takes every role but one for the
\* administrator's: the variant C26 is checked against
IsNotPlainUser(user) == user.role # <<"u", "s", "e", "r">>

\* const isAdmin = user.role === 'admin'
IsAdmin(user) == user.role = <<"a", "d", "m", "i", "n">>

\* the paths of the <Route> elements inside <Routes>, the path "*" aside
Routes(isAdmin) ==
    {"/", "/gallery"}
        \cup (IF isAdmin THEN {"/admin", "/admin/users", "/admin/analytics"} ELSE {})

\* what App returns: the spinner while loading, the sign-in screen without a
\* user, the router otherwise
Screen(a) ==
    IF a.loading THEN "loading" ELSE IF a.user = Null THEN "signin" ELSE "router"

\* the App component a after it rendered: under the router a location that
\* no route matches renders <Navigate to="/" replace />, and the Sidebar
\* renders a link for each entry of allNavigation
Routed(a) ==
    IF Screen(a) = "router"
    THEN [a EXCEPT !.location = IF a.location \in Routes(IsAdmin(a.user))
                                 THEN a.location ELSE "/",
                   !.links = AllNavigation(IsAdmin(a.user))]
    ELSE [a EXCEPT !.links = <<>>]

\* the page a rendered App shows: the element of the route at its location,
\* or the screen that stands for the router
Page(a) == IF Screen(a) = "router" THEN a.location ELSE Screen(a)

\* the App component once authentication has finished, with the route of
\* location shown to user; requested is the location the browser asked for
AppShowing(user, location) ==
    Routed([user |-> user, loading |-> FALSE, sidebarOpen |-> FALSE,
            location |-> location, requested |-> location, links |-> <<>>])

\* a page that is not mounted has the state of its useState defaults and no
\* call in flight
OtherPagesUnmounted ==
    /\ um = NoUserManagement
    /\ gallery = NoGallery
    /\ dash = NoDashboard
    /\ gen = NoGenerator

\* the state after the first render and its effect, which calls loadAnalytics
MountedAt(stores, clocks) ==
    /\ path = "/admin/analytics"
    /\ authUser = [id |-> <<"u", "1">>, role |-> <<"a", "d", "m", "i", "n">>]
    /\ OtherPagesUnmounted
    /\ \E s \in stores :
         /\ dbUsers = s.users
         /\ dbImages = s.images
         /\ tzOffset = s.tz
    /\ clock \in clocks
    /\ timeRange = "30d"
    /\ data = NoData
    /\ loading = TRUE
    /\ loads = (1 :> NewLoad("30d"))
    /\ started = 1
    /\ lastLoad = NoLoad
    /\ download = NoDownload
    /\ app = AppShowing(authUser, path)

Mounted(stores) == MountedAt(stores, Clocks)

Init == Mounted(ImageStores)

InitUsers == Mounted(UserStores)

Without(f, id) == [k \in DOMAIN f \ {id} |-> f[k]]

\* the Select's onValueChange: setTimeRange(r); the new loadAnalytics makes
\* the effect call it.  The Select is rendered only when loading is false.
SetTimeRange(r) ==
    /\ ~loading
    /\ r # timeRange
    /\ timeRange' = r
    /\ loads' = loads @@ ((started + 1) :> NewLoad(r))
    /\ started' = started + 1
    /\ UNCHANGED <<dbUsers, dbImages, clock, tzOffset, data, loading, lastLoad, download>>
    /\ UNCHANGED pages

\* await blink.db.users.list(...) returns
UsersListResolves(id) ==
    /\ id \in DOMAIN loads
    /\ loads[id].pc = "users"
    /\ loads' = [loads EXCEPT ![id].pc = "images", ![id].users = dbUsers]
    /\ UNCHANGED <<dbUsers, dbImages, clock, tzOffset, timeRange, data, loading,
                   started, lastLoad, download>>
    /\ UNCHANGED pages

\* await blink.db.users.list(...) throws: catch, finally
UsersListRejects(id) ==
    /\ id \in DOMAIN loads
    /\ loads[id].pc = "users"
    /\ loading' = FALSE
    /\ loads' = Without(loads, id)
    /\ lastLoad' = Finished("usersFailed", loads[id].range, InvalidDate,
                             <<>>, <<>>, <<>>)
    /\ UNCHANGED <<dbUsers, dbImages, clock, tzOffset, timeRange, data, started, download>>
    /\ UNCHANGED pages

\* await blink.db.generatedImages.list(...) throws: catch, finally
ImagesListRejects(id) ==
    /\ id \in DOMAIN loads
    /\ loads[id].pc = "images"
    /\ loading' = FALSE
    /\ loads' = Without(loads, id)
    /\ lastLoad' = Finished("imagesFailed", loads[id].range, InvalidDate,
                             loads[id].users, <<>>, <<>>)
    /\ UNCHANGED <<dbUsers, dbImages, clock, tzOffset, timeRange, data, started, download>>
    /\ UNCHANGED pages

\* await blink.db.generatedImages.list(...) returns and the rest of the try
\* block runs: setData(...), or the RangeError of toISOString and the catch;
\* then finally
ImagesListResolves(id) ==
    /\ id \in DOMAIN loads
    /\ loads[id].pc = "images"
    /\ IF MonthThrows(loads[id].users, clock)
       THEN data' = data
       ELSE data' \in AnalyticsData(loads[id].users, dbImages, clock,
                                    DaysBack(loads[id].range), tzOffset)
    /\ lastLoad' = Finished(IF MonthThrows(loads[id].users, clock)
                                THEN "threw" ELSE "stored",
                             loads[id].range, clock, loads[id].users, dbImages,
                             FilteredImages(dbImages,
                                 StartDate(clock, DaysBack(loads[id].range))))
    /\ loading' = FALSE
    /\ loads' = Without(loads, id)
    /\ UNCHANGED <<dbUsers, dbImages, clock, tzOffset, timeRange, started, download>>
    /\ UNCHANGED pages

\* the Export button, rendered only when loading is false
ExportData ==
    /\ ~loading
    /\ download' = [made    |-> TRUE,
                    name    |-> DownloadName(timeRange),
                    content |-> CsvContent(data.dailyStats),
                    stats   |-> data.dailyStats]
    /\ UNCHANGED <<dbUsers, dbImages, clock, tzOffset, timeRange, data, loading,
                   loads, started, lastLoad>>
    /\ UNCHANGED pages

Next ==
    \/ \E r \in TimeRanges : started < MaxLoads /\ SetTimeRange(r)
    \/ \E id \in DOMAIN loads : UsersListResolves(id)
    \/ \E id \in DOMAIN loads : UsersListRejects(id)
    \/ \E id \in DOMAIN loads : ImagesListResolves(id)
    \/ \E id \in DOMAIN loads : ImagesListRejects(id)
    \/ ExportData

Spec == Init /\ [][Next]_vars

SpecUsers == InitUsers /\ [][Next]_vars

\* the page mounted in the last millisecond of a month
MonthEnd == {Time(DaysFromCivil(2024, 1, 31), MsPerDay - 1)}

InitMonthEnd == MountedAt(UserStores, MonthEnd)

SpecMonthEnd == InitMonthEnd /\ [][Next]_vars

\* the loadAnalytics calls started where the time range is changed again and
\* again
MaxRangeLoads == 3

\* the page mounted on one store
InitRanges ==
    MountedAt({[images |-> BaseImages, users |-> BaseUsers, tz |-> 0]}, Clocks)

NextRanges ==
    \/ \E r \in TimeRanges : started < MaxRangeLoads /\ SetTimeRange(r)
    \/ \E id \in DOMAIN loads : UsersListResolves(id)
    \/ \E id \in DOMAIN loads : UsersListRejects(id)
    \/ \E id \in DOMAIN loads : ImagesListResolves(id)
    \/ \E id \in DOMAIN loads : ImagesListRejects(id)
    \/ ExportData

SpecRanges == InitRanges /\ [][NextRanges]_vars

----------------------------------------------------------------------------
(* Text search: String.prototype.toLowerCase and includes *)

UpperCase == <<"A", "B", "C", "D", "E", "F", "G", "H", "I", "J", "K", "L", "M", "N", "O", "P", "Q", "R", "S", "T", "U", "V", "W", "X", "Y", "Z">>

LowerCase == <<"a", "b", "c", "d", "e", "f", "g", "h", "i", "j", "k", "l", "m", "n", "o", "p", "q", "r", "s", "t", "u", "v", "w", "x", "y", "z">>

\* toLowerCase of one character: the 26 letters; the other characters the
\* stores hold (digits, punctuation, space) have no lower case
LowerChar(c) ==
    IF \E i \in 1..26 : UpperCase[i] = c
    THEN LowerCase[CHOOSE i \in 1..26 : UpperCase[i] = c]
    ELSE c

\* String.prototype.toLowerCase
ToLowerCase(s) == [i \in 1..Len(s) |-> LowerChar(s[i])]

\* String.prototype.includes
Includes(s, q) ==
    \E i \in 0..(Len(s) - Len(q)) : \A j \in 1..Len(q) : s[i + j] = q[j]

----------------------------------------------------------------------------
(* UserManagement (src/unnamed/part_000, lines 346 to 676) *)

RoleUser == <<"u", "s", "e", "r">>

RoleAdmin == <<"a", "d", "m", "i", "n">>

RoleModerator == <<"m", "o", "d", "e", "r", "a", "t", "o", "r">>

\* images.reduce((acc, img) => { acc[img.userId] = (acc[img.userId] || 0) + 1
\* ... }, {})
RECURSIVE ImageCounts(_)
ImageCounts(images) ==
    IF Len(images) = 0 THEN <<>>
    ELSE LET acc == ImageCounts(SubSeq(images, 1, Len(images) - 1))
             key == images[Len(images)].userId
         IN  SetProperty(acc, key, Incremented(acc, key))

\* imageCounts[user.id] without the || 0: undefined, no number, for a missing
\* key; the variant C15 is checked against
ImageCountOfOwn(imageCounts, id) ==
    IF HasOwn(imageCounts, id) THEN imageCounts[OwnIndex(imageCounts, id)].value
    ELSE NotANumber(0)

\* imageCounts[user.id] || 0: an own count, 0 for a missing key, and the
\* inherited member itself (truthy, no number) for a key of Object.prototype
ImageCountOf(imageCounts, id) ==
    IF HasOwn(imageCounts, id) THEN imageCounts[OwnIndex(imageCounts, id)].value
    ELSE IF id \in ObjectPrototypeKeys \/ id = ProtoKey THEN NotANumber(0)
    ELSE Num(0)

\* dbUsers.map(user => ({ id, email, displayName, role: user.role || 'user',
\* createdAt: user.createdAt || new Date().toISOString(), imageCount, status }))
TransformedUsers(listed, images, now) ==
    [k \in 1..Len(listed) |->
        [id          |-> listed[k].id,
         email       |-> listed[k].email,
         displayName |-> listed[k].displayName,
         role        |-> IF IsFalsy(listed[k].role) THEN RoleUser ELSE listed[k].role,
         createdAt   |-> IF IsFalsy(listed[k].createdAt) THEN ToISOString(now)
                         ELSE listed[k].createdAt,
         imageCount  |-> ImageCountOf(ImageCounts(images), listed[k].id),
         status      |-> "active"]]

\* user.displayName?.toLowerCase().includes(q): undefined, which filter takes
\* as false, when there is no display name
DisplayNameMatches(user, q) ==
    /\ user.displayName # Undefined
    /\ Includes(ToLowerCase(user.displayName), q)

\* users.filter(user => user.displayName?.toLowerCase().includes(q)), the
\* email not looked at: the variant C11 is checked against
FilteredUsersByName(users, searchQuery) ==
    SelectSeq(users, LAMBDA user : DisplayNameMatches(user, ToLowerCase(searchQuery)))

\* the filter with includes(searchQuery), the query not lower-cased: the
\* variant C12 is checked against
FilteredUsersQueryAsTyped(users, searchQuery) ==
    SelectSeq(users, LAMBDA user :
        \/ Includes(ToLowerCase(user.email), searchQuery)
        \/ DisplayNameMatches(user, searchQuery))

\* users.filter(user => user.email.toLowerCase().includes(q) ||
\*                      user.displayName?.toLowerCase().includes(q))
FilteredUsers(users, searchQuery) ==
    SelectSeq(users, LAMBDA user :
        \/ Includes(ToLowerCase(user.email), ToLowerCase(searchQuery))
        \/ DisplayNameMatches(user, ToLowerCase(searchQuery)))

\* a loadUsers call: where it waits, and its local dbUsers once the first
\* read has returned
NewUsersLoad == [pc |-> "users", dbUsers |-> <<>>]

\* the effect of the first render: loadUsers()
UserManagementMounted ==
    [NoUserManagement EXCEPT !.loads = (1 :> NewUsersLoad), !.started = 1]

\* the Refresh button: loadUsers(); it is rendered when loading is false
Refresh ==
    /\ path = "/admin/users"
    /\ ~um.loading
    /\ um.started < MaxLoads
    /\ um' = [um EXCEPT !.loads = @ @@ ((um.started + 1) :> NewUsersLoad),
                        !.started = @ + 1]
    /\ UNCHANGED <<world, analytics, path, authUser, app, gallery, dash, gen>>

\* await blink.db.users.list(...) returns
LoadUsersUsersResolve(id) ==
    /\ id \in DOMAIN um.loads
    /\ um.loads[id].pc = "users"
    /\ um' = [um EXCEPT !.loads[id] = [pc |-> "images", dbUsers |-> dbUsers]]
    /\ UNCHANGED <<world, analytics, path, authUser, app, gallery, dash, gen>>

\* either read throws: catch (console.error, toast.error), finally
LoadUsersRejects(id) ==
    /\ id \in DOMAIN um.loads
    /\ um' = [um EXCEPT !.loads = Without(um.loads, id), !.loading = FALSE]
    /\ UNCHANGED <<world, analytics, path, authUser, app, gallery, dash, gen>>

\* await blink.db.generatedImages.list(...) returns: setUsers(transformedUsers),
\* finally
LoadUsersImagesResolve(id) ==
    /\ id \in DOMAIN um.loads
    /\ um.loads[id].pc = "images"
    /\ um' = [um EXCEPT !.loads = Without(um.loads, id),
                        !.loading = FALSE,
                        !.users = TransformedUsers(um.loads[id].dbUsers, dbImages, clock)]
    /\ UNCHANGED <<world, analytics, path, authUser, app, gallery, dash, gen>>

\* the search Input's onChange: setSearchQuery(e.target.value)
SetSearchQuery(q) ==
    /\ path = "/admin/users"
    /\ ~um.loading
    /\ q # um.searchQuery
    /\ um' = [um EXCEPT !.searchQuery = q]
    /\ UNCHANGED <<world, analytics, path, authUser, app, gallery, dash, gen>>

\* blink.db.users.update(userId, { role }) as the store applies it
StoreWithRole(listed, userId, newRole) ==
    [k \in 1..Len(listed) |->
        IF listed[k].id = userId THEN [listed[k] EXCEPT !.role = newRole]
        ELSE listed[k]]

\* prev.map(user => ({ ...user, role: newRole })), the id not compared: the
\* variant C19 is checked against
WithRoleForAll(prev, userId, newRole) ==
    [k \in 1..Len(prev) |-> [prev[k] EXCEPT !.role = newRole]]

\* prev.map(user => user.id === userId ? { ...user, role: newRole } : user)
WithRole(prev, userId, newRole) ==
    [k \in 1..Len(prev) |->
        IF prev[k].id = userId THEN [prev[k] EXCEPT !.role = newRole]
        ELSE prev[k]]

\* handleRoleChange(userId, newRole) up to its await: the update request is
\* sent as it is
HandleRoleChange(userId, newRole) ==
    /\ path = "/admin/users"
    /\ ~um.loading
    /\ um.asked < MaxUpdates
    /\ um' = [um EXCEPT !.updates = @ @@ ((um.asked + 1) :>
                                          [userId |-> userId, role |-> newRole]),
                        !.asked = @ + 1]
    /\ UNCHANGED <<world, analytics, path, authUser, app, gallery, dash, gen>>

\* the roles of the two items of a row's menu: 'Make Admin', 'Make User'
MenuRoles == {RoleAdmin, RoleUser}

\* a click on a role item of the menu of a listed row
RoleMenuClick ==
    \E k \in 1..Len(FilteredUsers(um.users, um.searchQuery)), r \in MenuRoles :
        HandleRoleChange(FilteredUsers(um.users, um.searchQuery)[k].id, r)

\* the update resolves: setUsers(prev => prev.map(...)), toast.success
RoleUpdateResolves(id) ==
    /\ id \in DOMAIN um.updates
    /\ dbUsers' = StoreWithRole(dbUsers, um.updates[id].userId, um.updates[id].role)
    /\ um' = [um EXCEPT !.updates = Without(um.updates, id),
                        !.users = WithRole(um.users, um.updates[id].userId,
                                           um.updates[id].role)]
    /\ UNCHANGED <<dbImages, clock, tzOffset, analytics, path, authUser, app, gallery, dash, gen>>

\* the update throws after setUsers has run: the list is changed before the
\* request is known to have succeeded, the variant C27 is checked against
RoleUpdateRejectsAfterSetUsers(id) ==
    /\ id \in DOMAIN um.updates
    /\ um' = [um EXCEPT !.updates = Without(um.updates, id),
                        !.users = WithRole(um.users, um.updates[id].userId,
                                           um.updates[id].role),
                        !.roleErrors = @ + 1]
    /\ UNCHANGED <<world, analytics, path, authUser, app, gallery, dash, gen>>

\* the update throws: catch, toast.error
RoleUpdateRejects(id) ==
    /\ id \in DOMAIN um.updates
    /\ um' = [um EXCEPT !.updates = Without(um.updates, id),
                        !.roleErrors = @ + 1]
    /\ UNCHANGED <<world, analytics, path, authUser, app, gallery, dash, gen>>

\* handleStatusChange(userId, newStatus): no request is sent,
\* setUsers(prev => prev.map(...)), toast.success
HandleStatusChange(userId, newStatus) ==
    /\ path = "/admin/users"
    /\ ~um.loading
    /\ um' = [um EXCEPT !.users =
                 [k \in 1..Len(um.users) |->
                     IF um.users[k].id = userId
                     THEN [um.users[k] EXCEPT !.status = newStatus]
                     ELSE um.users[k]]]
    /\ UNCHANGED <<world, analytics, path, authUser, app, gallery, dash, gen>>

\* the statuses of the two other items of a row's menu: 'Ban User',
\* 'Activate User'
MenuStatuses == {"banned", "active"}

\* a click on a status item of the menu of a listed row
StatusMenuClick ==
    \E k \in 1..Len(FilteredUsers(um.users, um.searchQuery)), s \in MenuStatuses :
        /\ FilteredUsers(um.users, um.searchQuery)[k].status # s
        /\ HandleStatusChange(FilteredUsers(um.users, um.searchQuery)[k].id, s)

----------------------------------------------------------------------------
(* Gallery (src/unnamed/part_002) *)

GalleryLimit == 50

\* blink.db.generatedImages.list({ where: { userId }, orderBy: { createdAt:
\* 'desc' }, limit: 50 }): the store's records of that user, which it holds
\* newest first, and at most 50 of them
UserImages(stored, userId) ==
    Slice(SelectSeq(stored, LAMBDA img : img.userId = userId), 0, GalleryLimit)

\* images.filter(image => matchesSearch && matchesSize && matchesQuality)
GalleryFilteredImages(images, searchQuery, sizeFilter, qualityFilter) ==
    SelectSeq(images, LAMBDA image :
        /\ Includes(ToLowerCase(image.prompt), ToLowerCase(searchQuery))
        /\ (sizeFilter = "all" \/ image.size = sizeFilter)
        /\ (qualityFilter = "all" \/ image.quality = qualityFilter))

\* a loadImages call: where it waits, and its local user once auth.me has
\* returned
NewImagesLoad == [pc |-> "me", userId |-> <<>>]

\* the effect of the first render: loadImages()
GalleryMounted == [NoGallery EXCEPT !.loads = (1 :> NewImagesLoad), !.started = 1]

\* await blink.auth.me() returns
LoadImagesMeResolves(id) ==
    /\ id \in DOMAIN gallery.loads
    /\ gallery.loads[id].pc = "me"
    /\ gallery' = [gallery EXCEPT !.loads[id] = [pc |-> "images", userId |-> authUser.id]]
    /\ UNCHANGED <<world, analytics, path, authUser, app, um, dash, gen>>

\* auth.me or the list throws: catch (console.error, toast.error), finally
LoadImagesRejects(id) ==
    /\ id \in DOMAIN gallery.loads
    /\ gallery' = [gallery EXCEPT !.loads = Without(gallery.loads, id),
                                  !.loading = FALSE]
    /\ UNCHANGED <<world, analytics, path, authUser, app, um, dash, gen>>

\* await blink.db.generatedImages.list(...) returns: setImages(userImages),
\* finally
LoadImagesListResolves(id) ==
    /\ id \in DOMAIN gallery.loads
    /\ gallery.loads[id].pc = "images"
    /\ gallery' = [gallery EXCEPT !.loads = Without(gallery.loads, id),
                                  !.loading = FALSE,
                                  !.images = UserImages(dbImages, gallery.loads[id].userId)]
    /\ UNCHANGED <<world, analytics, path, authUser, app, um, dash, gen>>

\* the search Input's onChange; the filters are rendered when loading is false
SetGallerySearchQuery(q) ==
    /\ path = "/gallery"
    /\ ~gallery.loading
    /\ q # gallery.searchQuery
    /\ gallery' = [gallery EXCEPT !.searchQuery = q]
    /\ UNCHANGED <<world, analytics, path, authUser, app, um, dash, gen>>

\* the size Select's onValueChange
SetSizeFilter(v) ==
    /\ path = "/gallery"
    /\ ~gallery.loading
    /\ v # gallery.sizeFilter
    /\ gallery' = [gallery EXCEPT !.sizeFilter = v]
    /\ UNCHANGED <<world, analytics, path, authUser, app, um, dash, gen>>

\* the quality Select's onValueChange
SetQualityFilter(v) ==
    /\ path = "/gallery"
    /\ ~gallery.loading
    /\ v # gallery.qualityFilter
    /\ gallery' = [gallery EXCEPT !.qualityFilter = v]
    /\ UNCHANGED <<world, analytics, path, authUser, app, um, dash, gen>>

----------------------------------------------------------------------------
(* AdminDashboard (src/src/pages/AdminDashboard.tsx) *)

\* Array.prototype.splice(from, to - from) in the place of slice: the
\* elements are taken out of the receiver; the variant C13 is checked against
ArraySplice(arr, from, to) ==
    [result   |-> Slice(arr, from, to),
     receiver |-> Slice(arr, 0, from) \o Slice(arr, to, Len(arr))]

\* Array.prototype.slice(from, to): a new array, and the receiver as the call
\* leaves it
ArraySlice(arr, from, to) ==
    [result |-> Slice(arr, from, to), receiver |-> arr]

\* new Date(now.getFullYear(), now.getMonth(), 1): the first of now's month
\* at midnight, both in the browser's time zone
ThisMonth(now, tz) ==
    LET civ      == LocalCivil(now, tz)
        first    == DaysFromCivil(civ.year, civ.month, 1)
        midnight == 0 - tz * MsPerMinute
    IN  IF midnight < 0 THEN Time(first - 1, midnight + MsPerDay)
        ELSE Time(first, midnight)

\* images.filter(img => new Date(img.createdAt) >= thisMonth).length
ImagesThisMonth(images, now, tz) ==
    Len(SelectSeq(images, LAMBDA img : DateGE(NewDate(img.createdAt), ThisMonth(now, tz))))

ActiveDays == 7

\* new Set(images.filter(img => new Date(img.createdAt) >= lastWeek)
\*                .map(img => img.userId)).size
ActiveUsers(images, now) ==
    Cardinality({ images[k].userId : k \in
        { j \in 1..Len(images) :
            DateGE(NewDate(images[j].createdAt), MinusDays(now, ActiveDays)) } })

\* the argument of setStats
DashboardStats(users, images, now, tz) ==
    [totalUsers      |-> Len(users),
     totalImages     |-> Len(images),
     imagesThisMonth |-> ImagesThisMonth(images, now, tz),
     activeUsers     |-> ActiveUsers(images, now),
     systemStatus    |-> "healthy"]

RecentImages == 5

RecentUsers == 3

MessageLength == 50

\* users.find(u => u.id === img.userId)?.email
EmailOf(users, userId) ==
    LET found == {k \in 1..Len(users) : users[k].id = userId}
    IN  IF found = {} THEN Undefined ELSE users[Nth(found, 1)].email

\* the entry pushed for an image
ImageActivity(img, users) ==
    [id        |-> <<"i", "m", "g", "-">> \o img.id,
     type      |-> "image_generated",
     message   |-> <<"I", "m", "a", "g", "e", " ", "g", "e", "n", "e", "r", "a", "t", "e", "d", ":", " ", "\"">> \o Slice(img.prompt, 0, MessageLength) \o <<".", ".", ".", "\"">>,
     timestamp |-> img.createdAt,
     userId    |-> img.userId,
     userEmail |-> EmailOf(users, img.userId)]

\* the entry pushed for a user; later is the clock read by new Date() for a
\* user without createdAt
UserActivity(user, later) ==
    [id        |-> <<"u", "s", "e", "r", "-">> \o user.id,
     type      |-> "user_joined",
     message   |-> <<"N", "e", "w", " ", "u", "s", "e", "r", " ", "r", "e", "g", "i", "s", "t", "e", "r", "e", "d">>,
     timestamp |-> IF IsFalsy(user.createdAt) THEN ToISOString(later)
                   ELSE user.createdAt,
     userId    |-> user.id,
     userEmail |-> user.email]

\* a is not later than b
NotLater(a, b) == a.day < b.day \/ (a.day = b.day /\ a.ms <= b.ms)

\* e put into a sequence sorted from newest to oldest, after the entries
\* that are not older than e
InsertByTimeDesc(seq, e) ==
    LET n == Cardinality({i \in 1..Len(seq) :
                 NotLater(NewDate(e.timestamp), NewDate(seq[i].timestamp))})
    IN  SubSeq(seq, 1, n) \o <<e>> \o SubSeq(seq, n + 1, Len(seq))

RECURSIVE StableSortByTimeDesc(_)
StableSortByTimeDesc(seq) ==
    IF Len(seq) = 0 THEN <<>>
    ELSE InsertByTimeDesc(StableSortByTimeDesc(SubSeq(seq, 1, Len(seq) - 1)),
                          seq[Len(seq)])

\* activities.sort((a, b) => new Date(b.timestamp).getTime()
\*                          - new Date(a.timestamp).getTime()): stable, from
\* newest to oldest; with a timestamp that is no date the difference is NaN,
\* the comparator is not consistent and the order is implementation-defined
SortedByTime(activities) ==
    IF \A i \in 1..Len(activities) : NewDate(activities[i].timestamp).valid
    THEN {StableSortByTimeDesc(activities)}
    ELSE Reorderings(activities)

ActivityLimit == 10

\* the arguments of setRecentActivity the call can end with, and the users
\* and images as the two slices leave them
RecentActivity(users, images, now) ==
    LET firstImages == ArraySlice(images, 0, RecentImages)
        firstUsers  == ArraySlice(users, 0, RecentUsers)
        pushed(later) ==
            [k \in 1..Len(firstImages.result) |->
                ImageActivity(firstImages.result[k], users)]
            \o [k \in 1..Len(firstUsers.result) |->
                UserActivity(firstUsers.result[k], later)]
    IN  { [activity |-> Slice(sorted, 0, ActivityLimit),
           users    |-> firstUsers.receiver,
           images   |-> firstImages.receiver] :
              sorted \in UNION { SortedByTime(pushed(later)) : later \in ClockReads(now) } }

NewDashboardLoad == [pc |-> "users", users |-> <<>>]

\* the effect of the first render: loadDashboardData()
DashboardMounted ==
    [NoDashboard EXCEPT !.loads = (1 :> NewDashboardLoad), !.started = 1]

\* the Refresh button: loadDashboardData(); it is rendered when loading is
\* false
DashboardRefresh ==
    /\ path = "/admin"
    /\ ~dash.loading
    /\ dash.started < MaxLoads
    /\ dash' = [dash EXCEPT !.loads = @ @@ ((dash.started + 1) :> NewDashboardLoad),
                            !.started = @ + 1]
    /\ UNCHANGED <<world, analytics, path, authUser, app, um, gallery, gen>>

\* await blink.db.users.list(...) returns
DashboardUsersResolve(id) ==
    /\ id \in DOMAIN dash.loads
    /\ dash.loads[id].pc = "users"
    /\ dash' = [dash EXCEPT !.loads[id] = [pc |-> "images", users |-> dbUsers]]
    /\ UNCHANGED <<world, analytics, path, authUser, app, um, gallery, gen>>

\* a catch block that shows what was read before the failure,
\* setStats({ ...stats, totalUsers: users.length }): the variant C14 is
\* checked against
DashboardListRejectsWithCount(id) ==
    /\ id \in DOMAIN dash.loads
    /\ dash' = [dash EXCEPT !.loads = Without(dash.loads, id),
                            !.loading = FALSE,
                            !.stats.totalUsers = Len(dash.loads[id].users),
                            !.last = DashFinished("failed", dash.loads[id].users, <<>>)]
    /\ UNCHANGED <<world, analytics, path, authUser, app, um, gallery, gen>>

\* either read throws: catch (console.error), finally
DashboardListRejects(id) ==
    /\ id \in DOMAIN dash.loads
    /\ dash' = [dash EXCEPT !.loads = Without(dash.loads, id),
                            !.loading = FALSE,
                            !.last = DashFinished("failed", dash.loads[id].users, <<>>)]
    /\ UNCHANGED <<world, analytics, path, authUser, app, um, gallery, gen>>

\* await blink.db.generatedImages.list(...) returns: setStats(...),
\* setRecentActivity(...), finally.  (img.prompt is a string in every record
\* handleGenerate writes, so that img.prompt.slice does not throw.)
DashboardImagesResolve(id) ==
    /\ id \in DOMAIN dash.loads
    /\ dash.loads[id].pc = "images"
    /\ \E recent \in RecentActivity(dash.loads[id].users, dbImages, clock) :
          dash' = [dash EXCEPT
                     !.loads = Without(dash.loads, id),
                     !.loading = FALSE,
                     !.stats = DashboardStats(dash.loads[id].users, dbImages,
                                              clock, tzOffset),
                     !.recentActivity = recent.activity,
                     !.last = DashFinished("stored", recent.users, recent.images)]
    /\ UNCHANGED <<world, analytics, path, authUser, app, um, gallery, gen>>

----------------------------------------------------------------------------
(* ImageGenerator (src/unnamed/part_000, lines 31 to 345) *)

MaxGenerations == 2

\* String.prototype.trim, of the space character
RECURSIVE Trim(_)
Trim(s) ==
    IF Len(s) = 0 THEN s
    ELSE IF s[1] = " " THEN Trim(SubSeq(s, 2, Len(s)))
    ELSE IF s[Len(s)] = " " THEN Trim(SubSeq(s, 1, Len(s) - 1))
    ELSE s

\* what blink.ai.generateImage resolves to: no data, an empty data, an entry
\* without url, an entry with a url
Response(defined, items) == [defined |-> defined, items |-> items]

Responses ==
    { Response(FALSE, <<>>),
      Response(TRUE, <<>>),
      Response(TRUE, <<[url |-> Undefined]>>),
      Response(TRUE, <<[url |-> <<"h", "t", "t", "p", "s", ":", "/", "/", "a", "i", "/", "1", ".", "p", "n", "g">>]>>) }

\* the test without the url, data && data[0]: the variant C20 is checked
\* against
HasEntry(response) == response.defined /\ Len(response.items) > 0

\* data && data[0]?.url
HasUrl(response) ==
    /\ response.defined
    /\ Len(response.items) > 0
    /\ ~IsFalsy(response.items[1].url)

\* `${Date.now()}`: the decimal digits of the time value, written as those of
\* its seconds followed by the three of its milliseconds
DateNowString(now) ==
    NumberToString(now.day * (MsPerDay \div MsPerSecond) + now.ms \div MsPerSecond)
        \o PadStart(NumberToString(now.ms % MsPerSecond), 3)

\* imageData
ImageData(call, response, now) ==
    [id        |-> <<"i", "m", "g", "_">> \o DateNowString(now),
     userId    |-> call.userId,
     url       |-> response.items[1].url,
     prompt    |-> call.prompt,
     size      |-> call.size,
     quality   |-> call.quality,
     createdAt |-> ToISOString(now)]

ProgressStep == 10

ProgressCap == 90

ProgressDone == 100

\* what the text box is given
Prompts == {<<>>, <<" ", " ">>, <<"a", " ", "c", "a", "t">>}

GeneratorMounted == NoGenerator

\* the text box's onChange: setPrompt(e.target.value); it is disabled while
\* generating
SetPrompt(p) ==
    /\ path = "/"
    /\ ~gen.generating
    /\ p # gen.prompt
    /\ gen' = [gen EXCEPT !.prompt = p]
    /\ UNCHANGED <<world, analytics, path, authUser, app, um, gallery, dash>>

\* the Generate button, disabled while generating or with a blank prompt:
\* handleGenerate up to its first await: setGenerating(true), setProgress(0),
\* setInterval(...), blink.auth.me()
HandleGenerate ==
    /\ path = "/"
    /\ ~gen.generating
    /\ Trim(gen.prompt) # <<>>
    /\ gen.started < MaxGenerations
    /\ gen' = [gen EXCEPT
                 !.generating = TRUE,
                 !.progress = 0,
                 !.timers = @ \cup {gen.started + 1},
                 !.started = @ + 1,
                 !.calls = @ @@ ((gen.started + 1) :>
                     [pc |-> "me", prompt |-> gen.prompt, size |-> "1024x1024",
                      quality |-> "high", userId |-> Undefined,
                      data |-> Response(FALSE, <<>>), imageData |-> <<>>])]
    /\ UNCHANGED <<world, analytics, path, authUser, app, um, gallery, dash>>

\* the handleGenerate calls with a blank prompt that are explored
MaxRefused == 2

\* handleGenerate called with a blank prompt: if (!prompt.trim()),
\* toast.error, return
HandleGenerateBlank ==
    /\ path = "/"
    /\ Trim(gen.prompt) = <<>>
    /\ gen.refused < MaxRefused
    /\ gen' = [gen EXCEPT !.refused = @ + 1]
    /\ UNCHANGED <<world, analytics, path, authUser, app, um, gallery, dash>>

\* a tick of a progress interval: setProgress(prev => Math.min(prev + 10, 90))
ProgressTick(t) ==
    /\ t \in gen.timers
    /\ gen.progress # ProgressCap
    /\ gen' = [gen EXCEPT !.progress =
                 IF gen.progress + ProgressStep < ProgressCap
                 THEN gen.progress + ProgressStep ELSE ProgressCap]
    /\ UNCHANGED <<world, analytics, path, authUser, app, um, gallery, dash>>

\* catch without the finally block: generating and progress stay as they
\* are, the variant C29 is checked against
FailedWithoutFinally(id) ==
    [gen EXCEPT !.calls = Without(gen.calls, id)]

\* catch and finally: console.error, toast.error, setGenerating(false),
\* setProgress(0)
Failed(id) ==
    [gen EXCEPT !.calls = Without(gen.calls, id),
                !.generating = FALSE,
                !.progress = 0]

\* await blink.auth.me() returns
MeResolves(id) ==
    /\ id \in DOMAIN gen.calls
    /\ gen.calls[id].pc = "me"
    /\ gen' = [gen EXCEPT !.calls[id].pc = "generate",
                          !.calls[id].userId = authUser.id]
    /\ UNCHANGED <<world, analytics, path, authUser, app, um, gallery, dash>>

\* await blink.auth.me() throws: the interval is not cleared
MeRejects(id) ==
    /\ id \in DOMAIN gen.calls
    /\ gen.calls[id].pc = "me"
    /\ gen' = Failed(id)
    /\ UNCHANGED <<world, analytics, path, authUser, app, um, gallery, dash>>

\* await blink.ai.generateImage(...) returns: clearInterval, setProgress(100);
\* with a url, imageData and blink.db.generatedImages.create(imageData);
\* without, throw new Error, catch, finally
GenerateResolves(id, response) ==
    /\ id \in DOMAIN gen.calls
    /\ gen.calls[id].pc = "generate"
    /\ IF HasUrl(response)
       THEN gen' = [gen EXCEPT
                      !.timers = @ \ {id},
                      !.progress = ProgressDone,
                      !.calls[id].pc = "create",
                      !.calls[id].data = response,
                      !.calls[id].imageData = ImageData(gen.calls[id], response, clock)]
       ELSE gen' = [Failed(id) EXCEPT !.timers = @ \ {id}]
    /\ UNCHANGED <<world, analytics, path, authUser, app, um, gallery, dash>>

\* await blink.ai.generateImage(...) throws: the interval is not cleared
GenerateRejects(id) ==
    /\ id \in DOMAIN gen.calls
    /\ gen.calls[id].pc = "generate"
    /\ gen' = Failed(id)
    /\ UNCHANGED <<world, analytics, path, authUser, app, um, gallery, dash>>

\* await blink.db.generatedImages.create(imageData) returns: the store has
\* the record, setGeneratedImages(prev => [imageData, ...prev]),
\* toast.success, finally
CreateResolves(id) ==
    /\ id \in DOMAIN gen.calls
    /\ gen.calls[id].pc = "create"
    /\ dbImages' = <<gen.calls[id].imageData>> \o dbImages
    /\ gen' = [gen EXCEPT !.calls = Without(gen.calls, id),
                          !.generating = FALSE,
                          !.progress = 0,
                          !.generatedImages = <<gen.calls[id].imageData>> \o @]
    /\ UNCHANGED <<dbUsers, clock, tzOffset, analytics, path, authUser, app, um, gallery, dash>>

\* the same with setGeneratedImages run before the await: the image is
\* listed whether or not the store has taken it, the variant C28 is checked
\* against
CreateRejectsAfterSetGeneratedImages(id) ==
    /\ id \in DOMAIN gen.calls
    /\ gen.calls[id].pc = "create"
    /\ dbImages' \in {dbImages, <<gen.calls[id].imageData>> \o dbImages}
    /\ gen' = [Failed(id) EXCEPT
                 !.generatedImages = <<gen.calls[id].imageData>> \o @]
    /\ UNCHANGED <<dbUsers, clock, tzOffset, analytics, path, authUser, app, um, gallery, dash>>

\* await blink.db.generatedImages.create(imageData) throws, the record
\* written (the answer was lost) or not: catch, finally
CreateRejects(id) ==
    /\ id \in DOMAIN gen.calls
    /\ gen.calls[id].pc = "create"
    /\ dbImages' \in {dbImages, <<gen.calls[id].imageData>> \o dbImages}
    /\ gen' = Failed(id)
    /\ UNCHANGED <<dbUsers, clock, tzOffset, analytics, path, authUser, app, um, gallery, dash>>

----------------------------------------------------------------------------
(* The users and images the text search is explored on *)

Person(id, email, displayName, role, createdAt) ==
    [id |-> id, email |-> email, displayName |-> displayName, role |-> role,
     createdAt |-> createdAt]

\* a user with a display name; one with an upper-case email, no display name
\* and no role; one whose display name, and not the email, holds "al" and "bo"
PeopleCatalog ==
    << Person(<<"u", "1">>, <<"a", "l", "i", "c", "e", "@", "x", ".", "i", "o">>, <<"A", "l", "i", "c", "e">>, RoleAdmin,
              ToISOString(Time(DaysFromCivil(2024, 1, 15), Noon))),
       Person(<<"u", "2">>, <<"B", "O", "B", "@", "x", ".", "i", "o">>, Undefined, Undefined,
              ToISOString(Time(DaysFromCivil(2024, 2, 1), 0))),
       Person(<<"u", "3">>, <<"c", "a", "r", "o", "l", "@", "y", ".", "i", "o">>, <<"B", "o", " ", "A", "l">>, RoleUser, Undefined) >>

\* the three of them, in the other order
PeopleReversed == <<PeopleCatalog[3], PeopleCatalog[2], PeopleCatalog[1]>>

PeopleLists == Picks(PeopleCatalog, MaxUsers) \cup {PeopleReversed}

Picture(id, userId, prompt, size, quality, createdAt) ==
    [id |-> id, userId |-> userId, url |-> <<"h", "t", "t", "p", "s", ":", "/", "/", "i", "m", "g", "/">> \o id, prompt |-> prompt,
     size |-> size, quality |-> quality, createdAt |-> createdAt]

\* images as handleGenerate writes them, newest first; the last one is
\* another user's
PictureCatalog ==
    << Picture(<<"i", "m", "g", "_", "4">>, <<"u", "1">>, <<"A", " ", "C", "a", "t">>, "1024x1024", "high",
               ToISOString(Time(Today, 10 * MsPerHour))),
       Picture(<<"i", "m", "g", "_", "3">>, <<"u", "1">>, <<"c", "a", "t", " ", "a", "n", "d", " ", "D", "O", "G">>, "1792x1024", "low",
               ToISOString(Time(Today - 1, Noon))),
       Picture(<<"i", "m", "g", "_", "2">>, <<"u", "1">>, <<"b", "i", "r", "d">>, "1024x1024", "low",
               ToISOString(Time(Today - 2, Noon))),
       Picture(<<"i", "m", "g", "_", "1">>, <<"u", "2">>, <<"c", "a", "t">>, "1024x1024", "high",
               ToISOString(Time(Today - 3, Noon))) >>

PictureLists == Picks(PictureCatalog, MaxImages) \cup {PictureCatalog}

\* what is typed into the search boxes
UserQueries == {<<>>, <<"a", "l">>, <<"A", "L">>, <<"b", "o">>, <<"x", ".", "i", "o">>, <<"z", "z">>}

GalleryQueries == {<<>>, <<"c", "a", "t">>, <<"C", "A", "T">>, <<"d", "o">>, <<"z", "z">>}

\* the values of the size and quality Selects
SizeFilters == {"all", "1024x1024", "1792x1024", "1024x1792"}

QualityFilters == {"all", "auto", "low", "medium", "high"}

\* the signed-in administrator
Administrator == [id |-> <<"u", "1">>, role |-> RoleAdmin]

\* Analytics is not mounted: its useState defaults, no call in flight
AnalyticsUnmounted ==
    /\ timeRange = "30d"
    /\ data = NoData
    /\ loading = TRUE
    /\ loads = <<>>
    /\ started = 0
    /\ lastLoad = NoLoad
    /\ download = NoDownload

\* the user-management page or the gallery, just mounted
InitFilters ==
    /\ clock \in Clocks
    /\ tzOffset = 0
    /\ authUser = Administrator
    /\ AnalyticsUnmounted
    /\ \/ /\ path = "/admin/users"
          /\ dbUsers \in PeopleLists
          /\ dbImages = PictureCatalog
          /\ um = UserManagementMounted
          /\ gallery = NoGallery
          /\ dash = NoDashboard
          /\ gen = NoGenerator
       \/ /\ path = "/gallery"
          /\ dbUsers = PeopleCatalog
          /\ dbImages \in PictureLists
          /\ um = NoUserManagement
          /\ gallery = GalleryMounted
          /\ dash = NoDashboard
          /\ gen = NoGenerator
    /\ app = AppShowing(authUser, path)

NextFilters ==
    \/ Refresh
    \/ \E id \in DOMAIN um.loads : LoadUsersUsersResolve(id)
    \/ \E id \in DOMAIN um.loads : LoadUsersRejects(id)
    \/ \E id \in DOMAIN um.loads : LoadUsersImagesResolve(id)
    \/ \E q \in UserQueries : SetSearchQuery(q)
    \/ \E id \in DOMAIN gallery.loads : LoadImagesMeResolves(id)
    \/ \E id \in DOMAIN gallery.loads : LoadImagesRejects(id)
    \/ \E id \in DOMAIN gallery.loads : LoadImagesListResolves(id)
    \/ \E q \in GalleryQueries : SetGallerySearchQuery(q)
    \/ \E v \in SizeFilters : SetSizeFilter(v)
    \/ \E v \in QualityFilters : SetQualityFilter(v)

SpecFilters == InitFilters /\ [][NextFilters]_vars

----------------------------------------------------------------------------
(* The user-management page with its row menus. *)

\* the stores of two users
PeoplePairs == {Pick(PeopleCatalog, S) : S \in {{1, 2}, {1, 3}, {2, 3}}}

\* the user-management page, just mounted
InitRoles ==
    /\ clock \in Clocks
    /\ tzOffset = 0
    /\ authUser = Administrator
    /\ AnalyticsUnmounted
    /\ path = "/admin/users"
    /\ dbUsers \in PeoplePairs
    /\ dbImages = PictureCatalog
    /\ um = UserManagementMounted
    /\ gallery = NoGallery
    /\ dash = NoDashboard
    /\ gen = NoGenerator
    /\ app = AppShowing(authUser, path)

NextRoles ==
    \/ Refresh
    \/ \E id \in DOMAIN um.loads : LoadUsersUsersResolve(id)
    \/ \E id \in DOMAIN um.loads : LoadUsersRejects(id)
    \/ \E id \in DOMAIN um.loads : LoadUsersImagesResolve(id)
    \/ RoleMenuClick
    \/ \E id \in DOMAIN um.updates : RoleUpdateResolves(id)
    \/ \E id \in DOMAIN um.updates : RoleUpdateRejects(id)
    \/ StatusMenuClick

SpecRoles == InitRoles /\ [][NextRoles]_vars

\* handleRoleChange as a function of two strings: the ids and the role values
\* it is called with
CalledUserIds == {PeopleCatalog[k].id : k \in 1..Len(PeopleCatalog)} \cup {<<"u", "9">>}

CalledRoles == {RoleUser, RoleModerator, RoleAdmin, <<"s", "u", "p", "e", "r", "u", "s", "e", "r">>, <<>>}

NextRoleCalls ==
    \/ \E id \in DOMAIN um.loads : LoadUsersUsersResolve(id)
    \/ \E id \in DOMAIN um.loads : LoadUsersRejects(id)
    \/ \E id \in DOMAIN um.loads : LoadUsersImagesResolve(id)
    \/ \E userId \in CalledUserIds, newRole \in CalledRoles :
           HandleRoleChange(userId, newRole)
    \/ \E id \in DOMAIN um.updates : RoleUpdateResolves(id)
    \/ \E id \in DOMAIN um.updates : RoleUpdateRejects(id)

SpecRoleCalls == InitRoles /\ [][NextRoleCalls]_vars

----------------------------------------------------------------------------
(* The generator page. *)

\* the signed-in users: the administrator and a user without the admin role
SignedIn == {Administrator, [id |-> <<"u", "2">>, role |-> RoleUser]}

\* the generator page, just mounted
InitGenerate ==
    /\ clock \in Clocks
    /\ tzOffset = 0
    /\ AnalyticsUnmounted
    /\ path = "/"
    /\ authUser \in SignedIn
    /\ dbUsers = PeopleCatalog
    /\ dbImages \in {<<>>, PictureCatalog}
    /\ um = NoUserManagement
    /\ gallery = NoGallery
    /\ dash = NoDashboard
    /\ gen = GeneratorMounted
    /\ app = AppShowing(authUser, path)

NextGenerate ==
    \/ \E p \in Prompts : SetPrompt(p)
    \/ HandleGenerate
    \/ \E t \in gen.timers : ProgressTick(t)
    \/ \E id \in DOMAIN gen.calls : MeResolves(id)
    \/ \E id \in DOMAIN gen.calls : MeRejects(id)
    \/ \E id \in DOMAIN gen.calls, response \in Responses :
           GenerateResolves(id, response)
    \/ \E id \in DOMAIN gen.calls : GenerateRejects(id)
    \/ \E id \in DOMAIN gen.calls : CreateResolves(id)
    \/ \E id \in DOMAIN gen.calls : CreateRejects(id)

SpecGenerate == InitGenerate /\ [][NextGenerate]_vars

\* the request a handleGenerate call waits for returns or throws
Settles ==
    \E id \in DOMAIN gen.calls :
        \/ MeResolves(id)
        \/ MeRejects(id)
        \/ \E response \in Responses : GenerateResolves(id, response)
        \/ GenerateRejects(id)
        \/ CreateResolves(id)
        \/ CreateRejects(id)

NextGenerateCalls ==
    \/ NextGenerate
    \/ HandleGenerateBlank

\* handleGenerate called with any prompt, where every request that is
\* awaited returns or throws in the end, whichever of the two
SpecGenerateFair ==
    InitGenerate /\ [][NextGenerateCalls]_vars /\ WF_vars(Settles)

----------------------------------------------------------------------------
(* The generator page of one client, the clock, and a second client. *)

MaxTicks == 1

\* the clock moves on by a millisecond
Tick ==
    /\ clock.ms < Noon + MaxTicks
    /\ clock' = Time(clock.day, clock.ms + 1)
    /\ UNCHANGED <<dbUsers, dbImages, tzOffset, analytics, pages>>

\* the user signed in at the second client
OtherClient == [id |-> <<"u", "3">>, role |-> RoleUser]

\* the call of the second client's handleGenerate, at its
\* blink.db.generatedImages.create
OtherCall ==
    [pc |-> "create", prompt |-> <<"a", " ", "d", "o", "g">>, size |-> "1024x1024",
     quality |-> "high", userId |-> OtherClient.id]

\* the second client's handleGenerate, from the url it was returned to the
\* end of its create: imageData is made with that client's Date.now(), the
\* same clock, and the store has the record
OtherClientCreates ==
    /\ path = "/"
    /\ Cardinality({k \in 1..Len(dbImages) : dbImages[k].userId = OtherClient.id})
           < MaxGenerations
    /\ dbImages' = <<ImageData(OtherCall, Response(TRUE, <<[url |-> <<"h", "t", "t", "p", "s", ":", "/", "/", "a", "i", "/", "2", ".", "p", "n", "g">>]>>),
                               clock)>> \o dbImages
    /\ UNCHANGED <<dbUsers, clock, tzOffset, analytics, pages>>

\* the generator page, just mounted, over a store without images
InitClients ==
    /\ InitGenerate
    /\ dbImages = <<>>

NextClients ==
    \/ NextGenerate
    \/ Tick
    \/ OtherClientCreates

SpecClients == InitClients /\ [][NextClients]_vars

----------------------------------------------------------------------------
(* The administrator's dashboard while two clients generate images. *)

\* the clients that generate: two users in two other browsers
Clients == {OtherClient, [id |-> <<"u", "2">>, role |-> RoleUser]}

\* a client's handleGenerate, from the url it was returned to the end of its
\* create: imageData is made with that client's Date.now(), the same clock,
\* and the store has the record; a client ends one generation in a
\* millisecond
ClientCreates(client) ==
    /\ path = "/admin"
    /\ \A k \in 1..Len(dbImages) :
          dbImages[k].userId = client.id => dbImages[k].createdAt # ToISOString(clock)
    /\ dbImages' = <<ImageData([OtherCall EXCEPT !.userId = client.id],
                               Response(TRUE, <<[url |-> <<"h", "t", "t", "p", "s", ":", "/", "/", "a", "i", "/", "2", ".", "p", "n", "g">>]>>),
                               clock)>> \o dbImages
    /\ UNCHANGED <<dbUsers, clock, tzOffset, analytics, pages>>

\* the dashboard, just mounted, over a store with three users
InitDashboard ==
    /\ clock \in Clocks
    /\ tzOffset = 0
    /\ authUser = Administrator
    /\ AnalyticsUnmounted
    /\ path = "/admin"
    /\ dbUsers = PeopleCatalog
    /\ dbImages \in {<<>>, PictureCatalog}
    /\ dash = DashboardMounted
    /\ um = NoUserManagement
    /\ gallery = NoGallery
    /\ gen = NoGenerator
    /\ app = AppShowing(authUser, path)

NextDashboard ==
    \/ DashboardRefresh
    \/ \E id \in DOMAIN dash.loads : DashboardUsersResolve(id)
    \/ \E id \in DOMAIN dash.loads : DashboardListRejects(id)
    \/ \E id \in DOMAIN dash.loads : DashboardImagesResolve(id)
    \/ \E client \in Clients : ClientCreates(client)

SpecDashboard == InitDashboard /\ [][NextDashboard]_vars

----------------------------------------------------------------------------
(* The admin pages and the gallery over the same stores. *)

\* the stores the pages are opened on: an empty one, one with users and no
\* image, one with users and images
PageStores ==
    { [users |-> <<>>, images |-> <<>>, tz |-> 0],
      [users |-> PeopleCatalog, images |-> <<>>, tz |-> 0],
      [users |-> PeopleCatalog, images |-> PictureCatalog, tz |-> 0] }

\* one of the pages, just mounted
InitPages ==
    \/ /\ MountedAt(PageStores, Clocks)
    \/ /\ clock \in Clocks
       /\ authUser = Administrator
       /\ AnalyticsUnmounted
       /\ \E s \in PageStores :
             /\ dbUsers = s.users
             /\ dbImages = s.images
             /\ tzOffset = s.tz
       /\ gen = NoGenerator
       /\ \/ /\ path = "/admin"
             /\ dash = DashboardMounted
             /\ um = NoUserManagement
             /\ gallery = NoGallery
          \/ /\ path = "/admin/users"
             /\ dash = NoDashboard
             /\ um = UserManagementMounted
             /\ gallery = NoGallery
          \/ /\ path = "/gallery"
             /\ dash = NoDashboard
             /\ um = NoUserManagement
             /\ gallery = GalleryMounted
       /\ app = AppShowing(authUser, path)

NextPages ==
    \/ \E r \in TimeRanges : started < MaxLoads /\ SetTimeRange(r)
    \/ \E id \in DOMAIN loads : UsersListResolves(id)
    \/ \E id \in DOMAIN loads : UsersListRejects(id)
    \/ \E id \in DOMAIN loads : ImagesListResolves(id)
    \/ \E id \in DOMAIN loads : ImagesListRejects(id)
    \/ ExportData
    \/ DashboardRefresh
    \/ \E id \in DOMAIN dash.loads : DashboardUsersResolve(id)
    \/ \E id \in DOMAIN dash.loads : DashboardListRejects(id)
    \/ \E id \in DOMAIN dash.loads : DashboardImagesResolve(id)
    \/ Refresh
    \/ \E id \in DOMAIN um.loads : LoadUsersUsersResolve(id)
    \/ \E id \in DOMAIN um.loads : LoadUsersRejects(id)
    \/ \E id \in DOMAIN um.loads : LoadUsersImagesResolve(id)
    \/ \E q \in UserQueries : SetSearchQuery(q)
    \/ \E id \in DOMAIN gallery.loads : LoadImagesMeResolves(id)
    \/ \E id \in DOMAIN gallery.loads : LoadImagesRejects(id)
    \/ \E id \in DOMAIN gallery.loads : LoadImagesListResolves(id)
    \/ \E q \in GalleryQueries : SetGallerySearchQuery(q)
    \/ \E v \in SizeFilters : SetSizeFilter(v)
    \/ \E v \in QualityFilters : SetQualityFilter(v)

SpecPages == InitPages /\ [][NextPages]_vars

(* The App component: authentication, the router and the sidebar. *)

\* the users onAuthStateChanged reports: the administrator, a user, and two
\* whose role is neither 'admin' nor 'user'
AuthUsers ==
    { Administrator,
      [id |-> <<"u", "2">>, role |-> RoleUser],
      [id |-> <<"u", "3">>, role |-> <<"A", "d", "m", "i", "n">>],
      [id |-> <<"u", "4">>, role |-> Undefined] }

\* the states onAuthStateChanged reports
AuthStates == [user : AuthUsers \cup {Null}, isLoading : BOOLEAN]

\* the locations the browser asks for: the five routes and two that no route
\* has
Urls == Routes(TRUE) \cup {"/nowhere", "/admin/settings"}

\* the components after the page p took the place of the page at path: a page
\* that stays keeps its state, the page that leaves is unmounted and the one
\* that comes is mounted and runs its effect
Mounts(p) ==
    IF p = path
    THEN UNCHANGED <<analytics, um, gallery, dash, gen>>
    ELSE /\ um' = IF p = "/admin/users" THEN UserManagementMounted ELSE NoUserManagement
         /\ gallery' = IF p = "/gallery" THEN GalleryMounted ELSE NoGallery
         /\ dash' = IF p = "/admin" THEN DashboardMounted ELSE NoDashboard
         /\ gen' = IF p = "/" THEN GeneratorMounted ELSE NoGenerator
         /\ timeRange' = "30d"
         /\ data' = NoData
         /\ loading' = TRUE
         /\ loads' = IF p = "/admin/analytics" THEN (1 :> NewLoad("30d")) ELSE <<>>
         /\ started' = IF p = "/admin/analytics" THEN 1 ELSE 0
         /\ lastLoad' = NoLoad
         /\ download' = NoDownload

\* App renders with the state a
Render(a) ==
    /\ app' = Routed(a)
    /\ path' = Page(Routed(a))
    /\ authUser' = a.user
    /\ Mounts(Page(Routed(a)))
    /\ UNCHANGED world

\* the callback of blink.auth.onAuthStateChanged: setUser, setLoading; a
\* report of the state App already has renders nothing new
OnAuthStateChanged(state) ==
    /\ state # [user |-> app.user, isLoading |-> app.loading]
    /\ Render([app EXCEPT !.user = state.user,
                          !.loading = state.isLoading,
                          !.requested = app.location])

\* a click on the k-th <Link> of the sidebar: onClose, then the router goes
\* to its href
LinkClick(k) ==
    /\ k \in DOMAIN app.links
    /\ Render([app EXCEPT !.location = app.links[k],
                          !.requested = app.links[k],
                          !.sidebarOpen = FALSE])

\* the location changes through the browser's history
LocationChanges(url) ==
    /\ url # app.location
    /\ Render([app EXCEPT !.location = url, !.requested = url])

\* setSidebarOpen(true) of the Header, setSidebarOpen(false) of the Sidebar
SetSidebarOpen(open) ==
    /\ Screen(app) = "router"
    /\ app.sidebarOpen # open
    /\ app' = [app EXCEPT !.sidebarOpen = open]
    /\ UNCHANGED <<world, analytics, path, authUser, um, gallery, dash, gen>>

\* the application opened at one of the locations: useState(null),
\* useState(true), useState(false)
InitApp ==
    /\ clock \in Clocks
    /\ tzOffset = 0
    /\ dbUsers = PeopleCatalog
    /\ dbImages = PictureCatalog
    /\ AnalyticsUnmounted
    /\ OtherPagesUnmounted
    /\ authUser = Null
    /\ path = "loading"
    /\ \E url \in Urls :
          app = [user |-> Null, loading |-> TRUE, sidebarOpen |-> FALSE,
                 location |-> url, requested |-> url, links |-> <<>>]

NextApp ==
    \/ \E state \in AuthStates : OnAuthStateChanged(state)
    \/ \E k \in 1..Len(AllNavigation(TRUE)) : LinkClick(k)
    \/ \E url \in Urls : LocationChanges(url)
    \/ \E open \in BOOLEAN : SetSidebarOpen(open)

SpecApp == InitApp /\ [][NextApp]_vars

----------------------------------------------------------------------------
----------------------------------------------------------------------------
(* What the claims are stated with.  These read the finished call's inputs *)
(* and parse its output; none of them uses the operators that build it.    *)

Stored == lastLoad.outcome = "stored"

\* the number of days the claim names for a time range
WindowDays(range) ==
    CASE range = "7d" -> 7 [] range = "30d" -> 30 [] range = "90d" -> 90

Parseable(record) == NewDate(record.createdAt).valid

\* a <= b for two time values
Before(a, b) == a.day < b.day \/ (a.day = b.day /\ a.ms <= b.ms)

\* the positions of seq whose entry satisfies Test
Positions(seq, Test(_)) == {i \in 1..Len(seq) : Test(seq[i])}

\* the sum of a sequence of numbers
RECURSIVE Sum(_)
Sum(seq) ==
    IF Len(seq) = 0 THEN 0
    ELSE IF Len(seq) = 1 THEN seq[1]
    ELSE LET half == Len(seq) \div 2
         IN  Sum(SubSeq(seq, 1, half)) + Sum(SubSeq(seq, half + 1, Len(seq)))

\* s cut at every c: cut at the c nearest the middle, then each side
RECURSIVE SplitOn(_, _)
SplitOn(s, c) ==
    LET cuts == {i \in 1..Len(s) : s[i] = c}
        far(i) == IF 2 * i >= Len(s) THEN 2 * i - Len(s) ELSE Len(s) - 2 * i
    IN  IF cuts = {} THEN <<s>>
        ELSE LET at == CHOOSE i \in cuts : \A j \in cuts : far(i) <= far(j)
             IN  SplitOn(SubSeq(s, 1, at - 1), c)
                     \o SplitOn(SubSeq(s, at + 1, Len(s)), c)

\* a non-negative integer written in decimal, without leading zeros
IsDecimal(s) == Len(s) >= 1 /\ AllDigits(s) /\ (Len(s) = 1 \/ s[1] # "0")

\* the group key the claims give a prompt
ClaimedKey(prompt) ==
    IF Len(prompt) <= 50 THEN prompt
    ELSE [i \in 1..53 |-> IF i <= 50 THEN prompt[i] ELSE "."]

Smaller(a, b) == IF a < b THEN a ELSE b

----------------------------------------------------------------------------
(* The claims *)

\* C1: the per-day sequence a loadAnalytics call stores has exactly
\* windowDays entries (7, 30 or 90), its dates are consecutive calendar days in
\* strictly increasing order, and the last one is the UTC date of now.
C1_DailyStatsCoverTheWindow ==
    Stored =>
        LET stats == data.dailyStats
            n     == Len(stats)
            \* the dates, parsed
            days  == [k \in 1..n |-> NewDate(stats[k].date)]
        IN  /\ n = WindowDays(lastLoad.range)
            /\ \A k \in 1..n : Len(stats[k].date) = 10 /\ days[k].valid
            /\ \A k \in 1..(n - 1) : days[k + 1].day = days[k].day + 1
            /\ days[n].day = lastLoad.now.day

\* a 90-day window was stored: it runs from 2023-12-03 over the end of the
\* year and over February 29th
C1_Witness ==
    /\ Stored
    /\ lastLoad.range = "90d"
    /\ Len(data.dailyStats) = 90
    /\ data.dailyStats[1].date = <<"2", "0", "2", "3", "-", "1", "2", "-", "0", "3">>

\* C2: in every day bucket, images is the number of records whose timestamp
\* falls on that day and users is the number of distinct userId values among
\* exactly those records.
C2_BucketsCountRecordsAndDistinctUsers ==
    Stored =>
        LET \* the instant of each record, parsed
            stamps == [i \in 1..Len(lastLoad.images) |->
                          NewDate(lastLoad.images[i].createdAt)]
        IN  \A k \in 1..Len(data.dailyStats) :
                LET day   == NewDate(data.dailyStats[k].date).day
                    onDay == {i \in 1..Len(lastLoad.images) :
                                 stamps[i].valid /\ stamps[i].day = day}
                IN  /\ data.dailyStats[k].images = Cardinality(onDay)
                    /\ data.dailyStats[k].users =
                           Cardinality({lastLoad.images[i].userId : i \in onDay})

\* a bucket with more images than users: one user made several that day
C2_Witness ==
    /\ Stored
    /\ \E k \in 1..Len(data.dailyStats) :
           /\ data.dailyStats[k].users >= 1
           /\ data.dailyStats[k].images > data.dailyStats[k].users

\* C3: the time-window filter keeps a record if and only if its timestamp t
\* satisfies now - windowDays <= t <= now, and the kept records are in input
\* order.
C3_FilterKeepsExactlyTheWindow ==
    Stored =>
        lastLoad.filtered =
            SelectSeq(lastLoad.images, LAMBDA r :
                /\ Parseable(r)
                /\ Before(Time(lastLoad.now.day - WindowDays(lastLoad.range),
                               lastLoad.now.ms),
                          NewDate(r.createdAt))
                /\ Before(NewDate(r.createdAt), lastLoad.now))

\* C4: a user record without a parseable timestamp is in no month of the
\* user-growth output, and does not abort the aggregation: the result is
\* stored.
C4_UsersWithoutTimestampAreSkipped ==
    lastLoad.outcome \in {"stored", "threw"} =>
        /\ Stored
        /\ \A k \in 1..Len(data.userGrowth) : data.userGrowth[k].users.num
        /\ Sum([k \in 1..Len(data.userGrowth) |-> data.userGrowth[k].users.v])
               <= Cardinality(Positions(lastLoad.users, Parseable))

\* C5: an image with a malformed or missing timestamp is in no day bucket
\* and in no top-prompt group, raises no exception (a call that throws has a
\* user whose timestamp is the cause), and the day buckets and prompt counts
\* are those of the remaining records.
C5_ImagesWithoutTimestampAreSkipped ==
    lastLoad.outcome \in {"stored", "threw"} =>
        LET rest  == SelectSeq(lastLoad.images, Parseable)
            start == StartDate(lastLoad.now, WindowDays(lastLoad.range))
        IN  /\ \A i \in 1..Len(lastLoad.filtered) : Parseable(lastLoad.filtered[i])
            /\ lastLoad.outcome = "threw" =>
                   \E i \in 1..Len(lastLoad.users) :
                       /\ lastLoad.users[i].createdAt # Undefined
                       /\ ~Parseable(lastLoad.users[i])
            /\ Stored =>
                   /\ Sum([k \in 1..Len(data.dailyStats) |->
                              data.dailyStats[k].images]) <= Len(rest)
                   /\ data.dailyStats =
                          DailyStats(FilteredImages(rest, start), lastLoad.now,
                                     WindowDays(lastLoad.range))
                   /\ data.topPrompts \in TopPrompts(FilteredImages(rest, start))

\* a stored result whose images had one without a usable timestamp and one
\* that was counted
C5_Witness ==
    /\ Stored
    /\ \E i \in 1..Len(lastLoad.images) : ~Parseable(lastLoad.images[i])
    /\ Len(data.topPrompts) >= 1
    /\ \E k \in 1..Len(data.dailyStats) : data.dailyStats[k].images >= 1

\* C6: the top-prompts list never has more than 10 entries, and its entries
\* are in non-increasing order of count.
C6_TopPromptsAtMostTenNonIncreasing ==
    Stored =>
        /\ Len(data.topPrompts) <= 10
        /\ \A i, j \in 1..Len(data.topPrompts) :
               (i < j /\ data.topPrompts[i].count.num /\ data.topPrompts[j].count.num)
                   => data.topPrompts[i].count.v >= data.topPrompts[j].count.v

\* C7: of two groups with the same count, the one whose key was met first in
\* the input order comes first, whatever the key, digits included.
C7_TiesKeepInputOrder ==
    (Stored /\ \A k \in 1..Len(data.topPrompts) : data.topPrompts[k].count.num) =>
        LET firstSeen(key) ==
                CHOOSE i \in 1..Len(lastLoad.filtered) :
                    /\ ClaimedKey(lastLoad.filtered[i].prompt) = key
                    /\ \A h \in 1..(i - 1) :
                           ClaimedKey(lastLoad.filtered[h].prompt) # key
        IN  \A i, j \in 1..Len(data.topPrompts) :
                (i < j /\ data.topPrompts[i].count.v = data.topPrompts[j].count.v)
                    => firstSeen(data.topPrompts[i].prompt)
                           < firstSeen(data.topPrompts[j].prompt)

\* C8: the group key is the prompt, or its first 50 characters and '...' when
\* it is longer; the list has min(10, distinct keys) entries; each count is
\* the number of filtered records with that key; with at most 10 keys the
\* counts sum to the number of filtered records.
C8_GroupsCountTheirRecords ==
    Stored =>
        LET keys == {ClaimedKey(lastLoad.filtered[i].prompt) :
                        i \in 1..Len(lastLoad.filtered)}
            top  == data.topPrompts
        IN  /\ Len(top) = Smaller(10, Cardinality(keys))
            /\ \A k \in 1..Len(top) :
                   /\ top[k].count.num
                   /\ top[k].count.v =
                          Cardinality(Positions(lastLoad.filtered,
                              LAMBDA r : ClaimedKey(r.prompt) = top[k].prompt))
            /\ Cardinality(keys) <= 10 =>
                   Sum([k \in 1..Len(top) |-> top[k].count.v])
                       = Len(lastLoad.filtered)

\* the calendar month of a user's timestamp, counted in months since year 0
MonthIndex(user) ==
    LET civ == CivilFromDays(NewDate(user.createdAt).day)
    IN  12 * civ.year + civ.month - 1

\* C9: user growth has one entry per calendar month (UTC) with at least one
\* user, the latest 6 of them in ascending order; each count is the number
\* of users created in that month, and a month with no users does not
\* appear.
C9_GrowthHasTheMonthsOfTheUsers ==
    Stored =>
        LET dated  == Positions(lastLoad.users, Parseable)
            months == {MonthIndex(lastLoad.users[i]) : i \in dated}
            shown  == Smaller(6, Cardinality(months))
            \* the k-th of the shown months
            month(k) == Nth(months, Cardinality(months) - shown + k)
        IN  /\ Len(data.userGrowth) = shown
            /\ \A k \in 1..Len(data.userGrowth) :
                   /\ data.userGrowth[k].month =
                          MonthShort[(month(k) % 12) + 1] \o <<" ">>
                              \o NumberToString(month(k) \div 12)
                   /\ data.userGrowth[k].users =
                          Num(Cardinality({i \in dated :
                                  MonthIndex(lastLoad.users[i]) = month(k)}))

ThreeDays ==
    << [date |-> <<"2", "0", "2", "4", "-", "0", "1", "-", "0", "1">>, users |-> 1, images |-> 2],
       [date |-> <<"2", "0", "2", "4", "-", "0", "1", "-", "0", "2">>, users |-> 0, images |-> 0],
       [date |-> <<"2", "0", "2", "4", "-", "0", "1", "-", "0", "3">>, users |-> 1, images |-> 1] >>

\* 'Date,Users,Images\n2024-01-01,1,2\n2024-01-02,0,0\n2024-01-03,1,1'
ThreeDaysCsv ==
    << "D", "a", "t", "e", ",", "U", "s", "e", "r", "s", ",", "I",
           "m", "a", "g", "e", "s", "\n", "2", "0", "2", "4", "-", "0",
           "1", "-", "0", "1", ",", "1", ",", "2", "\n", "2", "0", "2",
           "4", "-", "0", "1", "-", "0", "2", ",", "0", ",", "0", "\n",
           "2", "0", "2", "4", "-", "0", "1", "-", "0", "3", ",", "1",
           ",", "1" >>

\* C10: exportData writes the header row Date,Users,Images and then one row
\* date,users,images per day bucket in the buckets' order, the rows separated
\* by one newline, with no newline at the end; for the three days of the
\* example the text is exactly the one given.
C10_CsvHasHeaderAndOneRowPerDay ==
    /\ download.made =>
           LET lines == SplitOn(download.content, "\n")
           IN  /\ Len(lines) = Len(download.stats) + 1
               /\ lines[1] = <<"D", "a", "t", "e", ",", "U", "s", "e", "r", "s", ",", "I", "m", "a", "g", "e", "s">>
               /\ download.content[Len(download.content)] # "\n"
               /\ \A k \in 1..Len(download.stats) :
                      LET fields == SplitOn(lines[k + 1], ",")
                      IN  /\ Len(fields) = 3
                          /\ fields[1] = download.stats[k].date
                          /\ IsDecimal(fields[2])
                          /\ DigitsToNumber(fields[2]) = download.stats[k].users
                          /\ IsDecimal(fields[3])
                          /\ DigitsToNumber(fields[3]) = download.stats[k].images
    /\ CsvContent(ThreeDays) = ThreeDaysCsv

\* an export of stored buckets, one of which has more images than users
C10_Witness ==
    /\ download.made
    /\ Len(download.stats) \in {7, 30, 90}
    /\ \E k \in 1..Len(download.stats) :
           download.stats[k].images > download.stats[k].users


\* C11: with the empty query the text filter returns every record in its
\* original order: UserManagement lists every loaded user, with or without a
\* display name, and Gallery, with the size and quality filters at 'all',
\* lists every loaded image.
C11_EmptyQueryListsEverything ==
    /\ um.searchQuery = <<>> =>
           FilteredUsers(um.users, um.searchQuery) = um.users
    /\ (gallery.searchQuery = <<>> /\ gallery.sizeFilter = "all"
            /\ gallery.qualityFilter = "all") =>
           GalleryFilteredImages(gallery.images, gallery.searchQuery,
                                 gallery.sizeFilter, gallery.qualityFilter)
               = gallery.images

\* three users are listed with the query emptied again, one of them without a
\* display name
C11_Witness ==
    /\ path = "/admin/users"
    /\ ~um.loading
    /\ um.searchQuery = <<>>
    /\ Len(um.users) = 3
    /\ \E k \in 1..Len(um.users) : um.users[k].displayName = Undefined

\* text holds query as a substring, both lower-cased
HoldsQuery(text, query) ==
    \E a \in 1..(Len(text) + 1), b \in 0..Len(text) :
        SubSeq(ToLowerCase(text), a, b) = ToLowerCase(query)

\* shown is the entries of all at the positions keep, in their order
IsSelection(shown, all, keep) ==
    /\ Len(shown) = Cardinality(keep)
    /\ \A j \in 1..Len(shown) : shown[j] = all[Nth(keep, j)]

\* the users listed are the users whose email or display name holds the
\* query, in their order
UsersListedByText ==
    IsSelection(FilteredUsers(um.users, um.searchQuery), um.users,
        {k \in 1..Len(um.users) :
            \/ HoldsQuery(um.users[k].email, um.searchQuery)
            \/ /\ um.users[k].displayName # Undefined
               /\ HoldsQuery(um.users[k].displayName, um.searchQuery)})

\* C12 (as amended): the users listed are exactly those whose email or
\* display name contains the query, both lower-cased, in input order; the
\* images listed are exactly those whose prompt contains the query, both
\* lower-cased, among the images the size and quality filters admit, in
\* input order.
C12_TextFilterSelectsMatches ==
    /\ UsersListedByText
    /\ IsSelection(GalleryFilteredImages(gallery.images, gallery.searchQuery,
                                         gallery.sizeFilter, gallery.qualityFilter),
           gallery.images,
           {k \in 1..Len(gallery.images) :
               /\ HoldsQuery(gallery.images[k].prompt, gallery.searchQuery)
               /\ gallery.sizeFilter \in {"all", gallery.images[k].size}
               /\ gallery.qualityFilter \in {"all", gallery.images[k].quality}})

\* the query AL, in upper case, lists two of three users: one by the email,
\* one by the display name alone
C12_Witness ==
    /\ um.searchQuery = <<"A", "L">>
    /\ Len(um.users) = 3
    /\ Len(FilteredUsers(um.users, um.searchQuery)) = 2
    /\ \E k \in 1..2 :
           ~Includes(ToLowerCase(FilteredUsers(um.users, um.searchQuery)[k].email), <<"a", "l">>)

\* C12 as stated: for every query the filter returns exactly the records with
\* a text field that contains the query, whatever the other filters of the
\* Gallery are set to.
C12_AsStated ==
    /\ UsersListedByText
    /\ IsSelection(GalleryFilteredImages(gallery.images, gallery.searchQuery,
                                         gallery.sizeFilter, gallery.qualityFilter),
           gallery.images,
           {k \in 1..Len(gallery.images) :
               HoldsQuery(gallery.images[k].prompt, gallery.searchQuery)})


\* the roles of the fixed enumeration
EnumeratedRoles == {RoleUser, RoleModerator, RoleAdmin}

C19_RoleChangeTouchesOneRoleOnly ==
    [][\A id \in DOMAIN um.updates :
          RoleUpdateResolves(id) =>
              /\ Len(um'.users) = Len(um.users)
              /\ \A k \in 1..Len(um.users) :
                    /\ DOMAIN um'.users[k] = DOMAIN um.users[k]
                    /\ \A f \in DOMAIN um.users[k] \ {"role"} :
                           um'.users[k][f] = um.users[k][f]
                    /\ um'.users[k].role =
                           IF um.users[k].id = um.updates[id].userId
                           THEN um.updates[id].role
                           ELSE um.users[k].role]_vars

\* two users are listed, no update is in flight, and the one stored without
\* a role, listed as 'user' and then banned, is now an admin in the list and
\* in the store, the other one as loaded
C19_Witness ==
    /\ Len(um.users) = 2
    /\ um.updates = <<>>
    /\ \E k \in 1..2 :
          /\ um.users[k].id = <<"u", "2">>
          /\ um.users[k].role = RoleAdmin
          /\ um.users[k].status = "banned"
          /\ dbUsers[k].role = RoleAdmin
    /\ \E k \in 1..2 :
          /\ um.users[k].id = <<"u", "3">>
          /\ um.users[k].role = RoleUser
          /\ um.users[k].status = "active"


\* C16: the 'Avg per Day' card shows an integer: 0 when there is no day bucket,
\* else the integer nearest to (sum of the per-day image counts) / (number of
\* day buckets), a half rounded up.
C16_AvgPerDayIsTheRoundedQuotient ==
    ~loading =>
        LET avg == AvgPerDay(data.dailyStats)
            n == Len(data.dailyStats)
            s == Sum([k \in 1..n |-> data.dailyStats[k].images])
        IN  /\ avg.kind = "int"
            /\ n = 0 => avg.v = 0
            /\ n > 0 => /\ 2 * n * avg.v <= 2 * s + n
                        /\ 2 * s + n < 2 * n * avg.v + 2 * n

\* a load failed before any succeeded: the cards are rendered over no day
\* bucket
C16_Witness ==
    /\ ~loading
    /\ lastLoad.outcome = "usersFailed"
    /\ data.dailyStats = <<>>
    /\ AvgPerDay(data.dailyStats) = [kind |-> "int", v |-> 0]


\* C17: a second run of the aggregation on the users, the images, the time
\* range and the now of the call that stored its result yields the stored
\* result, element for element, also with users without createdAt.  (The
\* images explored have numeric prompt counts, so the sort of the top prompts
\* has one outcome.)
C17_SameInputsSameOutput ==
    lastLoad.outcome = "stored" =>
        \A again \in AnalyticsData(lastLoad.users, lastLoad.images, lastLoad.now,
                                   DaysBack(lastLoad.range), tzOffset) :
            again = data


\* the users and images of the finished calls are the fetched ones
LocalsAsFetched ==
    /\ lastLoad.outcome \in {"stored", "threw"} =>
           lastLoad.users = dbUsers /\ lastLoad.images = dbImages
    /\ dash.last.outcome = "stored" =>
           dash.last.users = dbUsers /\ dash.last.images = dbImages

\* an export leaves the stored data as it read it, a change of a search box
\* or of a filter leaves the loaded list, and no step changes the store
StepsLeaveTheirInputs ==
    /\ download' # download =>
           data' = data /\ download'.stats = data.dailyStats
    /\ um'.searchQuery # um.searchQuery => um'.users = um.users
    /\ (\/ gallery'.searchQuery # gallery.searchQuery
        \/ gallery'.sizeFilter # gallery.sizeFilter
        \/ gallery'.qualityFilter # gallery.qualityFilter) =>
           gallery'.images = gallery.images
    /\ dbUsers' = dbUsers /\ dbImages' = dbImages

\* C13: no aggregation changes the collections it is given: when
\* loadAnalytics or loadDashboardData has finished, its users and images are
\* the fetched ones, same elements, same order, same fields; exportData
\* leaves the stored dailyStats, the text filters leave the loaded lists,
\* and no step of a load changes the store.
C13_AggregationsLeaveTheirInputs ==
    []LocalsAsFetched /\ [][StepsLeaveTheirInputs]_vars

\* the dashboard has loaded three users and four images and lists the seven
\* activities made of the slices of the two
C13_Witness ==
    /\ dash.last.outcome = "stored"
    /\ Len(dash.last.users) = 3
    /\ Len(dash.last.images) = 4
    /\ Len(dash.recentActivity) = 7

\* C14: when a load ends by a failed read of the users or of the images, no
\* field of the displayed statistics changes (Analytics: data; dashboard:
\* stats and recentActivity), the loading flag is cleared, and the call
\* reports one failure.
C14_FailedReadStoresNothing ==
    [][/\ (/\ DOMAIN loads' # DOMAIN loads
           /\ DOMAIN loads' \subseteq DOMAIN loads
           /\ lastLoad'.outcome \in {"usersFailed", "imagesFailed"}) =>
              /\ data' = data
              /\ ~loading'
              /\ lastLoad'.reports = 1
       /\ (/\ DOMAIN dash'.loads # DOMAIN dash.loads
           /\ DOMAIN dash'.loads \subseteq DOMAIN dash.loads
           /\ dash'.last.outcome = "failed") =>
              /\ dash'.stats = dash.stats
              /\ dash'.recentActivity = dash.recentActivity
              /\ ~dash'.loading
              /\ dash'.last.reports = 1]_vars

\* the dashboard was refreshed after a load of three users and four images,
\* the images read of the second call failed after its users had been read:
\* the statistics of the first load are shown
C14_Witness ==
    /\ dash.last.outcome = "failed"
    /\ Len(dash.last.users) = 3
    /\ ~dash.loading
    /\ dash.stats.totalImages = 4
    /\ Len(dash.recentActivity) = 7

\* C15: over an empty store a load that reads both collections stores its
\* result (nothing throws): Analytics has totals 0, every day bucket with 0
\* images and 0 users, no top prompt and no month; the dashboard has every
\* count 0 and no recent activity; and without images every listed user has
\* the image count 0.
C15_EmptyCollectionsGiveZeros ==
    /\ (dbUsers = <<>> /\ dbImages = <<>>
            /\ lastLoad.outcome \notin {"none", "usersFailed", "imagesFailed"}) =>
           /\ lastLoad.outcome = "stored"
           /\ data.totalUsers = 0
           /\ data.totalImages = 0
           /\ Len(data.dailyStats) = WindowDays(lastLoad.range)
           /\ \A k \in 1..Len(data.dailyStats) :
                  data.dailyStats[k].images = 0 /\ data.dailyStats[k].users = 0
           /\ data.topPrompts = <<>>
           /\ data.userGrowth = <<>>
    /\ (dbUsers = <<>> /\ dbImages = <<>>
            /\ dash.last.outcome \notin {"none", "failed"}) =>
           /\ dash.stats.totalUsers = 0
           /\ dash.stats.totalImages = 0
           /\ dash.stats.imagesThisMonth = 0
           /\ dash.stats.activeUsers = 0
           /\ dash.recentActivity = <<>>
    /\ dbImages = <<>> =>
           \A k \in 1..Len(um.users) : um.users[k].imageCount = Num(0)

\* the dashboard has loaded an empty store
C15_Witness ==
    /\ path = "/admin"
    /\ dbUsers = <<>>
    /\ dbImages = <<>>
    /\ dash.last.outcome = "stored"
    /\ ~dash.loading


\* C20: the store gets an image record only in a step that ends a
\* handleGenerate call whose generation request has returned a url, and the
\* record is that call's, with that url; a call that ends while it waits for
\* the authentication or for the generation (a failure of either, or a
\* generation without url) leaves the store as it is.
C20_RecordsOnlyAfterAUrl ==
    [][/\ dbImages' # dbImages =>
              \E id \in DOMAIN gen.calls \ DOMAIN gen'.calls :
                  /\ gen.calls[id].data.defined
                  /\ Len(gen.calls[id].data.items) > 0
                  /\ gen.calls[id].data.items[1].url \notin {Undefined, <<>>}
                  /\ dbImages' = <<gen.calls[id].imageData>> \o dbImages
                  /\ dbImages'[1].url = gen.calls[id].data.items[1].url
       /\ \A id \in DOMAIN gen.calls \ DOMAIN gen'.calls :
              gen.calls[id].pc \in {"me", "generate"} => dbImages' = dbImages]_vars

\* a generation has ended with its record stored: the newest record of the
\* store is the one listed, with the url that was returned
C20_Witness ==
    /\ path = "/"
    /\ ~gen.generating
    /\ Len(gen.generatedImages) = 1
    /\ Len(dbImages) = 5
    /\ dbImages[1] = gen.generatedImages[1]
    /\ dbImages[1].url = <<"h", "t", "t", "p", "s", ":", "/", "/", "a", "i", "/", "1", ".", "p", "n", "g">>
    /\ dbImages[1].prompt = <<"a", " ", "c", "a", "t">>


\* C21: no two records of the store have the same id, whatever generations
\* of whichever clients have created them, also two in one millisecond.
C21_IdsAreUnique ==
    \A i, j \in 1..Len(dbImages) :
        i # j => dbImages[i].id # dbImages[j].id


\* C22: the 'Active Users' card shows the sum over the day buckets of their
\* distinct-user counts.
C22_ActiveUsersIsTheSumOfTheDays ==
    ~loading =>
        ActiveUsersCard(data.dailyStats)
            = Sum([k \in 1..Len(data.dailyStats) |-> data.dailyStats[k].users])


\* C23: every running progress timer belongs to a handleGenerate call that
\* has not finished, at most one timer runs, and while no call is generating
\* the progress is 0.
C23_NoTimerOutlivesItsCall ==
    /\ gen.timers \subseteq DOMAIN gen.calls
    /\ Cardinality(gen.timers) <= 1
    /\ ~gen.generating => gen.progress = 0


\* C24: when every loadAnalytics call has finished and the one that finished
\* last was started for another time range than the selected one (the range
\* was changed while that call was in flight, and the call started by the
\* change finished before it), dailyStats has as many entries as the selected
\* range has days, and so has a file exported then.
C24_DaysOfTheSelectedRange ==
    (loads = <<>> /\ ~loading /\ lastLoad.range # timeRange) =>
        /\ Len(data.dailyStats) = WindowDays(timeRange)
        /\ (download.made /\ download.name = DownloadName(timeRange)) =>
               Len(download.stats) = WindowDays(timeRange)


\* C25: every image that passes the time-window filter is counted in exactly
\* one day bucket: the per-day image counts of a stored aggregation add up to
\* the number of images its filter kept.
C25_FilteredImagesAreInOneBucket ==
    (lastLoad.outcome = "stored" /\ loads = <<>>) =>
        ImagesOfDays(data.dailyStats) = Len(lastLoad.filtered)


\* the admin paths the claims name
AdminPaths == {"/admin", "/admin/users", "/admin/analytics"}

\* authentication has finished, a user is signed in, and the role is 'admin'
AdminSignedIn ==
    /\ ~app.loading
    /\ app.user # Null
    /\ app.user.role = RoleAdmin

\* C26: an admin page is rendered, and an admin link is in the sidebar, only
\* while authentication has finished loading, a user is signed in and the
\* user's role is exactly 'admin'; for any other signed-in user a request
\* for an admin path or an unknown path ends at '/'.
C26_AdminPagesOnlyForAdmins ==
    /\ (\/ path \in AdminPaths
        \/ um # NoUserManagement
        \/ dash # NoDashboard
        \/ loads # <<>>) => AdminSignedIn
    /\ (\E k \in DOMAIN app.links : app.links[k] \in AdminPaths) => AdminSignedIn
    /\ (/\ ~app.loading
        /\ app.user # Null
        /\ ~AdminSignedIn
        /\ app.requested \notin {"/", "/gallery"}) =>
           /\ app.location = "/"
           /\ path = "/"

C26_Witness ==
    /\ ~app.loading
    /\ app.user # Null
    /\ app.user.role = <<"A", "d", "m", "i", "n">>
    /\ app.requested = "/admin/users"
    /\ app.location = "/"
    /\ path = "/"
    /\ um = NoUserManagement
    /\ app.links = <<"/", "/gallery">>


\* C27: a handleRoleChange call whose update fails leaves the local list as
\* it was, and a step of handleRoleChange gives a listed user another role
\* only when it ends a call for that user and that role whose update the
\* store has taken.
C27_RoleChangesOnlyAfterTheUpdate ==
    [][/\ um'.roleErrors # um.roleErrors => um'.users = um.users
       /\ (um'.loads = um.loads /\ Len(um'.users) = Len(um.users)) =>
             \A k \in 1..Len(um.users) :
                um'.users[k].role # um.users[k].role =>
                   \E id \in DOMAIN um.updates \ DOMAIN um'.updates :
                      /\ um.updates[id].userId = um.users[k].id
                      /\ um.updates[id].role = um'.users[k].role
                      /\ \E j \in 1..Len(dbUsers') :
                            /\ dbUsers'[j].id = um.users[k].id
                            /\ dbUsers'[j].role = um'.users[k].role]_vars

\* two role changes were asked for and none is in flight: the one for the
\* user stored without a role failed and left the user a 'user' in the list
\* and without a role in the store, the other one made the administrator a
\* 'user' in both
C27_Witness ==
    /\ um.asked = 2
    /\ um.updates = <<>>
    /\ um.roleErrors = 1
    /\ Len(um.users) = 2
    /\ um.users[1].id = <<"u", "1">>
    /\ um.users[1].role = RoleUser
    /\ dbUsers[1].role = RoleUser
    /\ um.users[2].id = <<"u", "2">>
    /\ um.users[2].role = RoleUser
    /\ dbUsers[2].role = Undefined


\* C28: the store holds every image of the generator's list; the list changes
\* only in a step that ends a call whose record the store has taken, which
\* puts that one record in front of the others; a call that ends while it
\* waits for the authentication or the generation, or whose create request
\* throws, leaves the list as it is.
C28_ListedImagesAreStored ==
    [][/\ \A k \in 1..Len(gen'.generatedImages) :
             \E j \in 1..Len(dbImages') : dbImages'[j] = gen'.generatedImages[k]
       /\ gen'.generatedImages # gen.generatedImages =>
             \E id \in DOMAIN gen.calls \ DOMAIN gen'.calls :
                 /\ gen.calls[id].pc = "create"
                 /\ gen'.generatedImages
                        = <<gen.calls[id].imageData>> \o gen.generatedImages
                 /\ dbImages' = <<gen.calls[id].imageData>> \o dbImages
       /\ \A id \in DOMAIN gen.calls \ DOMAIN gen'.calls :
             (gen.calls[id].pc \in {"me", "generate"} \/ CreateRejects(id)) =>
                 gen'.generatedImages = gen.generatedImages]_vars

\* two generations have ended, on a store that was empty: the store took the
\* record of both, the list has the one whose create request returned
C28_Witness ==
    /\ path = "/"
    /\ gen.started = 2
    /\ gen.calls = <<>>
    /\ ~gen.generating
    /\ Len(gen.generatedImages) = 1
    /\ Len(dbImages) = 2
    /\ gen.generatedImages[1] \in {dbImages[1], dbImages[2]}


\* C29: whenever generating is true it is false again later, whether the
\* requests of the call return or throw; a handleGenerate call with a blank
\* prompt starts no call and no timer and leaves generating, progress, the
\* image list and the store as they are.
C29_GeneratingEndsAndBlankDoesNothing ==
    /\ gen.generating ~> ~gen.generating
    /\ [][gen'.refused # gen.refused =>
             /\ Trim(gen.prompt) = <<>>
             /\ gen'.calls = gen.calls
             /\ gen'.started = gen.started
             /\ gen'.timers = gen.timers
             /\ gen'.generating = gen.generating
             /\ gen'.progress = gen.progress
             /\ gen'.generatedImages = gen.generatedImages
             /\ dbImages' = dbImages]_vars

\* a call with a prompt of two spaces was refused, and two calls with a
\* prompt have ended, one of them with its image listed
C29_Witness ==
    /\ path = "/"
    /\ gen.refused = 1
    /\ gen.prompt = <<" ", " ">>
    /\ gen.started = 2
    /\ gen.calls = <<>>
    /\ ~gen.generating
    /\ Len(gen.generatedImages) = 1


\* C30: the recent-activity list a loadDashboardData call stores has an entry
\* only for one of the first 5 images or one of the first 3 users the call
\* fetched, has at most 10 entries, no two of them with the same id, and is
\* in the order of the timestamps, newest first, when every timestamp is a
\* date.
C30_RecentActivityIsBoundedDistinctAndSorted ==
    dash.last.outcome = "stored" =>
        LET shown  == dash.recentActivity
            images == dash.last.images
            users  == dash.last.users
        IN  /\ \A k \in 1..Len(shown) :
                  \/ \E j \in 1..Smaller(5, Len(images)) :
                        /\ shown[k].id = <<"i", "m", "g", "-">> \o images[j].id
                        /\ shown[k].type = "image_generated"
                  \/ \E j \in 1..Smaller(3, Len(users)) :
                        /\ shown[k].id = <<"u", "s", "e", "r", "-">> \o users[j].id
                        /\ shown[k].type = "user_joined"
            /\ Len(shown) <= 10
            /\ \A i, j \in 1..Len(shown) : i # j => shown[i].id # shown[j].id
            /\ (\A k \in 1..Len(shown) : NewDate(shown[k].timestamp).valid) =>
                  \A i, j \in 1..Len(shown) :
                      i < j => Before(NewDate(shown[j].timestamp),
                                      NewDate(shown[i].timestamp))

====
